---- MODULE Spec2Model ----
(***************************************************************************)
(* Model of the lottery prediction engine                                  *)
(* (src/src/predictors/israeli_lottery_predictor.py; the Mega Millions     *)
(* predictor is the same engine with other range and pool constants).      *)
(*                                                                         *)
(* The regular and special ranges and the tier boundaries are scaled down  *)
(* so that every ticket the generators can emit is enumerated; the counts  *)
(* the code hard-wires (4 tickets per strategy, 6 numbers, 3+3 core picks, *)
(* 3/2/1 tier split, 3 pairs, 3 seeds) and the Israeli pool sizes are the  *)
(* source's.  The Mega Millions pools and tiers are scaled with the range. *)
(*                                                                         *)
(* Scores are floats in the code; the model keeps them as exact fractions: *)
(* regular_scores[n] is the numerator over the common denominator          *)
(* regular_den, and exp(-decay*i) is a fixed-point table (thousandths).    *)
(* Every random draw is a nondeterministic choice over the outcomes that   *)
(* have non-zero probability.                                              *)
(***************************************************************************)
EXTENDS Integers, Sequences, FiniteSets, TLC

VARIABLES
    csv_rows,        \* rows of the CSV file, in file order
    lookback_draws,  \* constructor argument
    random_seed,     \* PREDICTION_CONFIG["random_seed"]
    df,              \* self.df after _load_and_prepare_data
    regular_scores,  \* self.regular_scores (numerators)
    regular_den,     \* common denominator of regular_scores
    special_scores,  \* self.special_scores (numerators)
    special_den,     \* common denominator of special_scores
    pair_frequency,  \* self.pair_frequency
    pc,              \* position in __init__ / generate_tickets
    err,             \* exception that ended the run, or "none"
    num_tickets,     \* argument of generate_tickets
    top_regular,     \* local of generate_tickets
    top_pairs,       \* local of the pair-based and the mixed generator
    tickets,         \* local of generate_tickets: raw candidates
    made,            \* loop counter of the running generator
    ticket_numbers,  \* local of _generate_core_tickets (kept sorted)
    remaining,       \* local of _generate_core_tickets
    picks,           \* iterations done of the running for-range(3) loop
    regular_nums,    \* local of _generate_mixed_strategy_ticket
    valid_tickets,   \* local of generate_tickets
    attempts,        \* calls of the fallback generator in this call
    result,          \* value returned by generate_tickets
    run,             \* which program run this is (1 or 2)
    first_result,    \* what run 1 returned
    calls,           \* generate_tickets calls this predictor has completed
    count,           \* argument "count" of the running strategy generator
    caller,          \* who called the running generator
    numbers_per_ticket, \* self.NUMBERS_PER_TICKET as the instance sees it
    game,            \* which predictor class this is
    raw_rows,        \* rows of the raw file IsraeliLotteryProcessor reads
    interval_weeks,  \* argument of scrape_historical_data
    year,            \* the year of the running "for year" iteration
    today,           \* datetime.today()
    start_date,      \* start_date (Mega Millions), current_date (Powerball)
    end_of_year,     \* end_of_year (Mega Millions), year_end (Powerball)
    requests,        \* the (start, end) dates passed to fetch_data
    all_results,     \* all_results of scrape_historical_data
    scraped          \* what scrape_historical_data returned to main()

vars == <<csv_rows, lookback_draws, random_seed, df, regular_scores,
          regular_den, special_scores, special_den, pair_frequency, pc, err,
          num_tickets, top_regular, top_pairs, tickets, made, ticket_numbers,
          remaining, picks, regular_nums, valid_tickets, attempts, result, run,
          first_result, calls, count, caller, numbers_per_ticket, game,
          raw_rows, interval_weeks, year, today, start_date, end_of_year,
          requests, all_results, scraped>>

-----------------------------------------------------------------------------
(* Profile constants *)

REGULAR_NUMBERS_MIN == 1
REGULAR_NUMBERS_MAX == 8
SPECIAL_NUMBERS_MIN == 1
SPECIAL_NUMBERS_MAX == 2
NUMBERS_PER_TICKET == 6

Numbers == REGULAR_NUMBERS_MIN..REGULAR_NUMBERS_MAX
Specials == SPECIAL_NUMBERS_MIN..SPECIAL_NUMBERS_MAX

(* Strategy constants *)
STRATEGY_COUNT == 4
CORE_POOL == 15
CORE_FIRST_PICKS == 3
CORE_SECOND_PICKS == 3
TIER1_END == 4
TIER2_END == 6
TIER3_END == 7
TIER1_PICKS == 3
TIER2_PICKS == 2
PAIR_POOL == 30
PAIR_SAMPLE_POOL == 15
PAIRS_TO_USE == 3
MIXED_SEEDS == 3
MIXED_POOL == 20
MIXED_PAIR_POOL == 20

(* The same constants in MegaMillionsPredictor.  Its pools and tiers are   *)
(* scaled with the range (pools of 20 and 30 of 70 numbers, tiers of 15    *)
(* ranks, 20 and 30 of 2415 pairs in the source), so that a number can lie *)
(* outside a pool and a walk can run out of pairs with one endpoint        *)
(* chosen.                                                                 *)
MEGA_NUMBERS_PER_TICKET == 5
MEGA_CORE_POOL == 6
MEGA_CORE_SECOND_PICKS == 2
MEGA_TIER1_END == 3
MEGA_TIER2_END == 5
MEGA_TIER3_END == 6
MEGA_TIER1_PICKS == 2
MEGA_TIER2_PICKS == 2
MEGA_PAIR_POOL == 50
MEGA_PAIR_SAMPLE_POOL == 10
MEGA_PAIRS_TO_USE == 2
MEGA_MIXED_SEEDS == 3
MEGA_MIXED_POOL == 4
MEGA_MIXED_PAIR_POOL == 3
LOOKBACK_DEFAULT == 200
FREQUENCY_WEIGHT == 6
RECENCY_WEIGHT == 4
WEIGHT_SCALE == 10

(* Bounds of the model *)
MaxHistory == 2
MaxTickets == 3
MaxAttempts == 3
MaxCandidates == 3
MaxCalls == 1
MaxCount == 2
MaxSeededTickets == 3

-----------------------------------------------------------------------------
(* Generic helpers *)

Min(a, b) == IF a < b THEN a ELSE b
Max(a, b) == IF a > b THEN a ELSE b

RECURSIVE SumSeq(_)
SumSeq(s) == IF s = <<>> THEN 0 ELSE Head(s) + SumSeq(Tail(s))

RECURSIVE SumOver(_, _)
SumOver(f, S) ==
    IF S = {} THEN 0
    ELSE CHOOSE total \in {f[x] + SumOver(f, S \ {x}) :
                               x \in {CHOOSE y \in S : TRUE}} : TRUE

SetMax(S) == CHOOSE x \in S : \A y \in S : y <= x

Range(s) == {s[i] : i \in DOMAIN s}

\* seq[:n] of Python, for any integer n
Slice(s, n) ==
    IF n >= 0 THEN SubSeq(s, 1, Min(n, Len(s)))
    ELSE SubSeq(s, 1, Max(Len(s) + n, 0))

\* seq[a:b] of Python for 0 <= a <= b
SliceFrom(s, a, b) == SubSeq(s, Min(a, Len(s)) + 1, Min(b, Len(s)))

\* sorted(list(S)) for a set of integers
RECURSIVE SortedSeq(_)
SortedSeq(S) ==
    IF S = {} THEN <<>>
    ELSE LET m == CHOOSE x \in S : \A y \in S : x <= y
         IN <<m>> \o SortedSeq(S \ {m})

\* the list with x added, kept in ascending order (list.append then sort)
RECURSIVE InsertSorted(_, _)
InsertSorted(s, x) ==
    IF s = <<>> THEN <<x>>
    ELSE IF x <= Head(s) THEN <<x>> \o s
    ELSE <<Head(s)>> \o InsertSorted(Tail(s), x)

\* sorted(s) for a list of integers: repeated values are kept
RECURSIVE Sorted(_)
Sorted(s) ==
    IF s = <<>> THEN <<>>
    ELSE InsertSorted(Sorted(Tail(s)), Head(s))

\* list.remove(x): drops the first occurrence
RECURSIVE RemoveFirst(_, _)
RemoveFirst(s, x) ==
    IF s = <<>> THEN <<>>
    ELSE IF Head(s) = x THEN Tail(s)
    ELSE <<Head(s)>> \o RemoveFirst(Tail(s), x)

\* the subsets with exactly n elements of a set S of integers
RECURSIVE SubsetsOfSize(_, _)
SubsetsOfSize(S, n) ==
    IF n = 0 THEN {{}}
    ELSE UNION { {T \cup {x} : T \in SubsetsOfSize({y \in S : y > x}, n - 1)}
                 : x \in S }

-----------------------------------------------------------------------------
(* Loading *)

\* sort by date, most recent first (the input dates are distinct)
RECURSIVE SortByDateDesc(_)
SortByDateDesc(rows) ==
    IF rows = <<>> THEN <<>>
    ELSE LET i == CHOOSE k \in DOMAIN rows :
                      \A j \in DOMAIN rows : rows[j].date <= rows[k].date
             rest == [j \in 1..(Len(rows) - 1) |->
                          IF j < i THEN rows[j] ELSE rows[j + 1]]
         IN <<rows[i]>> \o SortByDateDesc(rest)

\* df.head(n)
HeadRows(rows, n) == Slice(rows, n)

RecentDf == HeadRows(df, lookback_draws)

-----------------------------------------------------------------------------
(* Score engine *)

\* np.exp(-0.02 * i) and np.exp(-0.03 * i) in thousandths, i = 0, 1, ...
REGULAR_DECAY == <<1000, 980, 961, 942, 923, 905>>
SPECIAL_DECAY == <<1000, 970, 942, 914, 887, 861>>

\* the columns Number1..Number6 of every row of the window
RegularValues(w) == [i \in DOMAIN w |-> w[i].numbers]
\* the column Special of every row of the window
SpecialValues(w) == [i \in DOMAIN w |-> <<w[i].special>>]

\* how many columns of the row hold n
Occurrences(vals, n) == Cardinality({c \in DOMAIN vals : vals[c] = n})

CountOfFirstColumn(vw, n) ==
    Cardinality({i \in DOMAIN vw : vw[i][1] = n})

\* Counter: how often n is seen in the window
CountOf(vw, n) ==
    SumSeq([i \in DOMAIN vw |-> Occurrences(vw[i], n)])

\* recency_weights[n]: each appearance in row i (0-based) adds exp(-decay*i)
RecencyOf(vw, decay, n) ==
    SumSeq([i \in DOMAIN vw |-> decay[i] * Occurrences(vw[i], n)])

\* a value of the window that is no key of the pre-filled recency dict
HasKeyError(vw, keys) ==
    \E i \in DOMAIN vw : \E c \in DOMAIN vw[i] : vw[i][c] \notin keys

MaxFreqSum(vw, keys) ==
    IF vw # <<>> THEN SumOver([n \in keys |-> CountOf(vw, n)], keys) ELSE 1

\* max_freq = max(counts.values()) if counts else 1
MaxFreq(vw, keys) ==
    IF vw # <<>> THEN SetMax({CountOf(vw, n) : n \in keys}) ELSE 1

\* max_recency = max(recency.values()) if recency else 1
\* (the dict is pre-filled with every key, so it is never empty)
MaxRecency(vw, decay, keys) ==
    IF keys # {} THEN SetMax({RecencyOf(vw, decay, n) : n \in keys}) ELSE 1

\* the denominator of the scores
ScoreDen(vw, decay, keys) ==
    WEIGHT_SCALE * MaxFreq(vw, keys) * MaxRecency(vw, decay, keys)

\* score[n] = 0.6 * count/max_freq + 0.4 * recency/max_recency, as the
\* numerator over ScoreDen
ScoreTable(vw, decay, keys) ==
    LET mf == MaxFreq(vw, keys)
        mr == MaxRecency(vw, decay, keys)
    IN [n \in keys |->
           FREQUENCY_WEIGHT * CountOf(vw, n) * mr
           + RECENCY_WEIGHT * RecencyOf(vw, decay, n) * mf]

-----------------------------------------------------------------------------
(* Pair correlation engine *)

Pairs == {p \in Numbers \X Numbers : p[1] < p[2]}

NormPair(a, b) == IF a > b THEN <<b, a>> ELSE <<a, b>>

AdjacentPositions(vals) ==
    {q \in (DOMAIN vals) \X (DOMAIN vals) : q[2] = q[1] + 1}

\* itertools.combinations(numbers, 2), as pairs of positions
Combinations2(vals) == {q \in (DOMAIN vals) \X (DOMAIN vals) : q[1] < q[2]}

\* how many 2-combinations of the row land on key p
RowPairHits(vals, p) ==
    Cardinality({q \in Combinations2(vals) :
                     NormPair(vals[q[1]], vals[q[2]]) = p})

PairTable(w) ==
    [p \in Pairs |-> SumSeq([i \in DOMAIN w |-> RowPairHits(w[i].numbers, p)])]

\* the 2-combinations of row i whose key was not pre-populated
MissingKeys(w, i) ==
    {q \in Combinations2(w[i].numbers) :
         NormPair(w[i].numbers[q[1]], w[i].numbers[q[2]]) \notin Pairs}

\* a 2-combination whose key was not pre-populated
PairKeyError(w) == \E i \in DOMAIN w : MissingKeys(w, i) # {}

\* itertools.combinations yields q before r
ComboBefore(q, r) == q[1] < r[1] \/ (q[1] = r[1] /\ q[2] < r[2])

\* the table as the KeyError leaves it: every key pre-populated, the rows
\* before the failing one counted in full, the failing row up to the
\* combination whose key is missing
PairTableAtKeyError(w) ==
    LET r == CHOOSE i \in DOMAIN w :
                 /\ MissingKeys(w, i) # {}
                 /\ \A j \in 1..(i - 1) : MissingKeys(w, j) = {}
        vals == w[r].numbers
        first == CHOOSE q \in MissingKeys(w, r) :
                     \A x \in MissingKeys(w, r) : x = q \/ ComboBefore(q, x)
        counted == {q \in Combinations2(vals) : ComboBefore(q, first)}
    IN [p \in Pairs |->
           SumSeq([i \in 1..(r - 1) |-> RowPairHits(w[i].numbers, p)])
           + Cardinality({q \in counted :
                              NormPair(vals[q[1]], vals[q[2]]) = p})]

-----------------------------------------------------------------------------
(* Inputs *)

RowPool ==
    { [numbers |-> <<1, 2, 3, 4, 5, 6>>, special |-> 1],
      [numbers |-> <<8, 3, 5, 4, 7, 6>>, special |-> 2],
      [numbers |-> <<7, 2, 3, 4, 5, 1>>, special |-> 2],
      [numbers |-> <<6, 1, 8, 2, 7, 3>>, special |-> 2] }

Permutations1(n) == {f \in [1..n -> 1..n] : \A i, j \in 1..n : f[i] = f[j] => i = j}

\* files of up to MaxHistory rows with pairwise distinct dates, in any order
CsvFiles ==
    UNION {
        { [i \in 1..n |-> [date |-> d[i], numbers |-> r[i].numbers,
                           special |-> r[i].special]] :
              r \in [1..n -> RowPool], d \in Permutations1(n) }
        : n \in 0..MaxHistory }

\* the columns Number1..NumberN the class reads
GameColumns(g) ==
    IF g = "israeli" THEN NUMBERS_PER_TICKET ELSE MEGA_NUMBERS_PER_TICKET

\* the file as the class reads it
ColumnsOf(g, h) ==
    [i \in DOMAIN h |->
        [date |-> h[i].date,
         numbers |-> SubSeq(h[i].numbers, 1, GameColumns(g)),
         special |-> h[i].special]]

\* the non-empty files of the class
GameFiles(g) == {ColumnsOf(g, h) : h \in CsvFiles \ {<<>>}}

\* the file generate_tickets runs over: a single draw
GenFiles(g) ==
    {ColumnsOf(g, <<[date |-> 1, numbers |-> <<1, 2, 3, 4, 5, 6>>,
                     special |-> 1]>>)}

\* a file of two draws (the older one first in the file) that differ in one
\* regular number and in the special number
TwoDrawFiles(g) ==
    {ColumnsOf(g, <<[date |-> 1, numbers |-> <<1, 2, 3, 4, 5, 6>>,
                     special |-> 1],
                    [date |-> 2, numbers |-> <<7, 2, 3, 4, 5, 1>>,
                     special |-> 2]>>)}

Games == {"israeli", "megamillions"}

\* a datetime: the day counted from January 1 of the year at hand (day 0),
\* and whether the time of day is midnight (0) or later (1)
DateTime(d, t) == [day |-> d, tod |-> t]

\* scrape_historical_data returned None, or a DataFrame of these rows
NoDataFrame == [none |-> TRUE, rows |-> <<>>]
DataFrame(rows) == [none |-> FALSE, rows |-> rows]

\* no scraper is running
ScraperIdle ==
    /\ interval_weeks = 0
    /\ year = [jan1 |-> 0, days |-> 0]
    /\ today = DateTime(0, 0)
    /\ start_date = DateTime(0, 0)
    /\ end_of_year = DateTime(0, 0)
    /\ requests = <<>>
    /\ all_results = <<>>
    /\ scraped = NoDataFrame

NumTicketsValues == (0 - 1)..MaxTickets
Seeds == {"None", "42"}

InitCommon ==
    /\ df = <<>>
    /\ regular_scores = <<>>
    /\ regular_den = 1
    /\ special_scores = <<>>
    /\ special_den = 1
    /\ pair_frequency = <<>>
    /\ pc = "start"
    /\ err = "none"
    /\ num_tickets = 0
    /\ top_regular = <<>>
    /\ top_pairs = <<>>
    /\ tickets = <<>>
    /\ made = 0
    /\ ticket_numbers = <<>>
    /\ remaining = <<>>
    /\ picks = 0
    /\ regular_nums = {}
    /\ valid_tickets = <<>>
    /\ attempts = 0
    /\ result = <<>>
    /\ run = 1
    /\ first_result = <<>>
    /\ calls = 0
    /\ count = 0
    /\ caller = "none"
    /\ raw_rows = <<>>
    /\ ScraperIdle

\* the predictor of either class as generate_predictions builds it
Init ==
    /\ game \in Games
    /\ csv_rows \in GenFiles(game)
    /\ lookback_draws = LOOKBACK_DEFAULT
    /\ random_seed = "None"
    /\ numbers_per_ticket = GameColumns(game)
    /\ InitCommon

\* IsraeliLotteryPredictor(csv_file, lookback_draws) over any file
InitAnalysis ==
    /\ csv_rows \in CsvFiles
    /\ lookback_draws \in 0..(MaxHistory + 1)
    /\ random_seed = "None"
    /\ numbers_per_ticket = NUMBERS_PER_TICKET
    /\ game = "israeli"
    /\ InitCommon

scraperVars == <<interval_weeks, year, today, start_date, end_of_year,
                 requests, all_results, scraped>>
genVars == <<num_tickets, top_regular, top_pairs, tickets, made, ticket_numbers,
             remaining, picks, regular_nums, valid_tickets, attempts, result>>
ctorVars == <<csv_rows, lookback_draws, random_seed, run, first_result,
              calls, numbers_per_ticket, game, raw_rows, scraperVars>>
inputVars == <<ctorVars, count, caller>>
tableVars == <<regular_scores, regular_den, special_scores, special_den,
               pair_frequency>>

-----------------------------------------------------------------------------
(* __init__ *)

\* the exceptions of the model
ZERO_DIVISION == "ZeroDivisionError"
NAN_WEIGHTS == "ValueError: probabilities contain NaN"
TOO_FEW_NONZERO == "ValueError: Fewer non-zero entries in p than size"
SAMPLE_TOO_LARGE == "ValueError: Sample larger than population"
EMPTY_CHOICE == "IndexError"
KEY_ERROR == "KeyError"

\* an exception ends the run
Fail(e) ==
    /\ pc' = "failed"
    /\ err' = e

\* "w / total" with a zero total of scores: ZeroDivisionError when the total
\* is a Python number; with numpy floats (what the analysis step stores) the
\* weights are NaN and np.random.choice raises.  The tables are plain
\* attributes and hold either.
ZeroTotalErrors == {ZERO_DIVISION, NAN_WEIGHTS}

\* one of the exceptions ends the run
FailAny(errors) ==
    /\ pc' = "failed"
    /\ err' \in errors

LoadAndPrepareData ==
    /\ pc = "start"
    /\ df' = SortByDateDesc(csv_rows)
    /\ pc' = "loaded"
    /\ UNCHANGED <<inputVars, tableVars, genVars, err>>

AnalyzeRegularNumbers ==
    /\ pc = "loaded"
    /\ LET vw == RegularValues(RecentDf) IN
       IF HasKeyError(vw, Numbers)
       THEN /\ Fail(KEY_ERROR)
            /\ UNCHANGED <<regular_scores, regular_den>>
       ELSE IF MaxRecency(vw, REGULAR_DECAY, Numbers) = 0
       THEN /\ Fail(ZERO_DIVISION)
            /\ UNCHANGED <<regular_scores, regular_den>>
       ELSE /\ regular_scores' = ScoreTable(vw, REGULAR_DECAY, Numbers)
            /\ regular_den' = ScoreDen(vw, REGULAR_DECAY, Numbers)
            /\ pc' = "regular_done"
            /\ err' = err
    /\ UNCHANGED <<inputVars, df, special_scores, special_den, pair_frequency,
                   genVars>>

AnalyzeSpecialNumbers ==
    /\ pc = "regular_done"
    /\ LET vw == SpecialValues(RecentDf) IN
       IF HasKeyError(vw, Specials)
       THEN /\ Fail(KEY_ERROR)
            /\ UNCHANGED <<special_scores, special_den>>
       ELSE IF MaxRecency(vw, SPECIAL_DECAY, Specials) = 0
       THEN /\ Fail(ZERO_DIVISION)
            /\ UNCHANGED <<special_scores, special_den>>
       ELSE /\ special_scores' = ScoreTable(vw, SPECIAL_DECAY, Specials)
            /\ special_den' = ScoreDen(vw, SPECIAL_DECAY, Specials)
            /\ pc' = "special_done"
            /\ err' = err
    /\ UNCHANGED <<inputVars, df, regular_scores, regular_den, pair_frequency,
                   genVars>>

AnalyzePairFrequency ==
    /\ pc = "special_done"
    /\ LET w == RecentDf IN
       IF PairKeyError(w)
       THEN /\ Fail(KEY_ERROR)
            /\ pair_frequency' = PairTableAtKeyError(w)
       ELSE /\ pair_frequency' = PairTable(w)
            /\ pc' = "ready"
            /\ err' = err
    /\ UNCHANGED <<inputVars, df, regular_scores, regular_den, special_scores,
                   special_den, genVars>>

NextAnalysis ==
    \/ LoadAndPrepareData
    \/ AnalyzeRegularNumbers
    \/ AnalyzeSpecialNumbers
    \/ AnalyzePairFrequency

SpecAnalysis == InitAnalysis /\ [][NextAnalysis]_vars

-----------------------------------------------------------------------------
(* Rankings and weighted draws *)

\* sorted(self.regular_scores.items(), key=score, reverse=True): the sort is
\* stable, so equal scores keep the dict's order (ascending number)
RankOfNumber(scores, n) ==
    1 + Cardinality({m \in DOMAIN scores :
                        \/ scores[m] > scores[n]
                        \/ scores[m] = scores[n] /\ m < n})

TopRegular(scores) ==
    [k \in 1..Cardinality(DOMAIN scores) |->
        CHOOSE n \in DOMAIN scores : RankOfNumber(scores, n) = k]

PairAfter(p, q) == p[1] > q[1] \/ (p[1] = q[1] /\ p[2] > q[2])

\* insertion order of the pair table: i ascending, then j ascending
PairBefore(p, q) == p[1] < q[1] \/ (p[1] = q[1] /\ p[2] < q[2])

\* list(self.pair_frequency): the keys in insertion order
PairsInOrder ==
    [k \in 1..Cardinality(Pairs) |->
        CHOOSE p \in Pairs :
            Cardinality({q \in Pairs : PairBefore(q, p)}) = k - 1]

\* the keys with count c, then those with count c-1, ..., each group in
\* insertion order
RECURSIVE PairsFromCount(_, _)
PairsFromCount(freq, c) ==
    IF c < 0 THEN <<>>
    ELSE SelectSeq(PairsInOrder, LAMBDA p : freq[p] = c)
         \o PairsFromCount(freq, c - 1)

RankedPairsAscending(freq) ==
    LET ranked == PairsFromCount(freq, SetMax({freq[p] : p \in Pairs}))
    IN [k \in 1..Len(ranked) |-> ranked[Len(ranked) + 1 - k]]

\* sorted(self.pair_frequency.items(), key=count, reverse=True): the sort is
\* stable, so pairs of equal count keep the insertion order
RankedPairs(freq) ==
    PairsFromCount(freq, SetMax({freq[p] : p \in Pairs}))

\* sum(weights) over a set of candidates
TotalWeight(weights, cands) == SumOver(weights, cands)

\* np.random.choice(cands, p=weights/total): what can come out
WeightedChoices(weights, cands) == {c \in cands : weights[c] > 0}

\* _select_special_number: the outcomes; with a zero total "w / total"
\* raises or leaves NaN weights that np.random.choice rejects
SpecialFails == TotalWeight(special_scores, Specials) = 0
SpecialChoices == WeightedChoices(special_scores, Specials)

Ticket(regular, special) == <<regular, special>>

-----------------------------------------------------------------------------
(* generate_tickets: the three strategies *)

\* the sizes of the class at hand
CorePool == IF game = "israeli" THEN CORE_POOL ELSE MEGA_CORE_POOL
CoreSecondPicks ==
    IF game = "israeli" THEN CORE_SECOND_PICKS ELSE MEGA_CORE_SECOND_PICKS
TierEnds ==
    IF game = "israeli" THEN <<TIER1_END, TIER2_END, TIER3_END>>
    ELSE <<MEGA_TIER1_END, MEGA_TIER2_END, MEGA_TIER3_END>>
TierPicks ==
    IF game = "israeli" THEN <<TIER1_PICKS, TIER2_PICKS>>
    ELSE <<MEGA_TIER1_PICKS, MEGA_TIER2_PICKS>>
PairPool == IF game = "israeli" THEN PAIR_POOL ELSE MEGA_PAIR_POOL
PairSampleSize ==
    IF game = "israeli" THEN PAIR_SAMPLE_POOL ELSE MEGA_PAIR_SAMPLE_POOL
PairsToUse == IF game = "israeli" THEN PAIRS_TO_USE ELSE MEGA_PAIRS_TO_USE

CoreSet == Slice(top_regular, CorePool)

\* where the running generator returns to after its last ticket: the next
\* statement of generate_tickets, or the caller that called it on its own
ReturnTo(next, returned) ==
    IF caller = "generate_tickets" THEN next ELSE returned

\* generate_tickets(num_tickets) up to the call of the core generator
GenerateTickets ==
    /\ pc = "ready"
    /\ \E n \in NumTicketsValues : num_tickets' = n
    /\ tickets' = <<>>
    /\ top_regular' = TopRegular(regular_scores)
    /\ top_pairs' = <<>>
    /\ made' = 0
    /\ ticket_numbers' = <<>>
    /\ remaining' = Slice(TopRegular(regular_scores), CorePool)
    /\ picks' = 0
    /\ regular_nums' = {}
    /\ valid_tickets' = <<>>
    /\ attempts' = 0
    /\ result' = <<>>
    /\ count' = STRATEGY_COUNT
    /\ caller' = "generate_tickets"
    /\ pc' = "core_pick"
    /\ UNCHANGED <<ctorVars, df, tableVars, err>>

\* one iteration of "for _ in range(3)" of _generate_core_tickets
CoreFirstPick ==
    /\ pc = "core_pick"
    /\ picks < CORE_FIRST_PICKS
    /\ IF remaining # <<>>
       THEN \E chosen \in
                (IF TotalWeight(regular_scores, Range(remaining)) > 0
                 THEN WeightedChoices(regular_scores, Range(remaining))
                 ELSE Range(remaining)) :
                /\ ticket_numbers' = InsertSorted(ticket_numbers, chosen)
                /\ remaining' = RemoveFirst(remaining, chosen)
       ELSE UNCHANGED <<ticket_numbers, remaining>>
    /\ picks' = picks + 1
    /\ UNCHANGED <<inputVars, df, tableVars, pc, err, num_tickets, top_regular, top_pairs,
                   tickets, made, regular_nums, valid_tickets, attempts,
                   result>>

\* np.random.choice(remaining, size, replace=False, p) raises when fewer
\* entries of p are non-zero than size
CoreSecondFails(rem) ==
    LET positive == WeightedChoices(regular_scores, Range(rem))
    IN /\ rem # <<>>
       /\ positive # {}
       /\ Cardinality(positive) < Min(CoreSecondPicks, Len(rem))

CoreSecondDrawsShort(rem) ==
    LET positive == WeightedChoices(regular_scores, Range(rem))
    IN IF rem = <<>> \/ positive = {} THEN {{}}
       ELSE SubsetsOfSize(positive, Min(CoreSecondPicks, Len(rem)) - 1)

\* what the jittered draw without replacement can add (the jitter factor is
\* in [0.7, 1.0), so a weight is zero iff the score is); nothing is added
\* when the pool is used up or the total weight is zero
CoreSecondDraws(rem) ==
    LET positive == WeightedChoices(regular_scores, Range(rem))
    IN IF rem = <<>> \/ positive = {} THEN {{}}
       ELSE SubsetsOfSize(positive, Min(CoreSecondPicks, Len(rem)))

CoreTopUpsRepeating(chosen) ==
    LET missing == numbers_per_ticket - Cardinality(chosen)
    IN IF missing <= 0 THEN {{}}
       ELSE SubsetsOfSize(Numbers, missing)

\* the "ensure 6 numbers" loop: every way to fill up from the full range
CoreTopUps(chosen) ==
    LET missing == numbers_per_ticket - Cardinality(chosen)
    IN IF missing <= 0 THEN {{}}
       ELSE SubsetsOfSize(Numbers \ chosen, missing)

RECURSIVE InsertAll(_, _)
InsertAll(s, S) ==
    IF S = {} THEN s
    ELSE LET x == CHOOSE y \in S : TRUE
         IN InsertAll(InsertSorted(s, x), S \ {x})

\* the exceptions the rest of one core ticket raises: the first statement
\* that fails.  When NUMBERS_PER_TICKET exceeds the size of the range the
\* fill-up loop runs out of numbers and random.choice([]) raises IndexError
CoreErrors ==
    IF CoreSecondFails(remaining) THEN {TOO_FEW_NONZERO}
    ELSE IF numbers_per_ticket > Cardinality(Numbers) THEN {EMPTY_CHOICE}
    ELSE IF SpecialFails THEN ZeroTotalErrors
    ELSE {}

\* the rest of one core ticket: jittered draw, fill-up loop, sort, special
CoreComplete ==
    /\ pc = "core_pick"
    /\ picks = CORE_FIRST_PICKS
    /\ IF CoreErrors # {}
       THEN /\ FailAny(CoreErrors)
            /\ UNCHANGED <<tickets, made, ticket_numbers, remaining, picks>>
       ELSE \E drawn \in CoreSecondDraws(remaining) :
              \E extra \in CoreTopUps(Range(ticket_numbers) \cup drawn),
                 special_num \in SpecialChoices :
                /\ tickets' = Append(tickets,
                       Ticket(InsertAll(InsertAll(ticket_numbers, drawn), extra),
                              special_num))
                /\ IF made + 1 < count
                   THEN /\ made' = made + 1
                        /\ pc' = "core_pick"
                   ELSE /\ made' = 0
                        /\ pc' = ReturnTo("tiered", "core_returned")
                /\ ticket_numbers' = <<>>
                /\ remaining' = CoreSet
                /\ picks' = 0
                /\ err' = err
    /\ UNCHANGED <<inputVars, df, tableVars, num_tickets, top_regular, top_pairs,
                   regular_nums, valid_tickets, attempts, result>>

\* tiers[0], tiers[1], tiers[2]
Tier1 == Range(SliceFrom(top_regular, 0, TierEnds[1]))
Tier2Overlapping == Range(SliceFrom(top_regular, TierEnds[1] - 1, TierEnds[2]))
Tier2 == Range(SliceFrom(top_regular, TierEnds[1], TierEnds[2]))
Tier3 == Range(SliceFrom(top_regular, TierEnds[2], TierEnds[3]))

\* the exceptions one ticket of _generate_tiered_tickets raises: the first
\* statement that fails
TieredErrors ==
    IF Cardinality(Tier1) < TierPicks[1] \/ Cardinality(Tier2) < TierPicks[2]
    THEN {SAMPLE_TOO_LARGE}
    ELSE IF Tier3 = {} THEN {EMPTY_CHOICE}
    ELSE IF SpecialFails THEN ZeroTotalErrors
    ELSE {}

\* one ticket of _generate_tiered_tickets
TieredTicket ==
    /\ pc = "tiered"
    /\ IF TieredErrors # {}
       THEN /\ FailAny(TieredErrors)
            /\ UNCHANGED <<tickets, made>>
       ELSE \E a \in SubsetsOfSize(Tier1, TierPicks[1]),
               b \in SubsetsOfSize(Tier2, TierPicks[2]),
               c \in Tier3,
               special_num \in SpecialChoices :
              /\ tickets' = Append(tickets,
                     Ticket(InsertSorted(InsertAll(InsertAll(<<>>, a), b), c),
                            special_num))
              /\ IF made + 1 < count
                 THEN /\ made' = made + 1
                      /\ pc' = "tiered"
                 ELSE /\ made' = 0
                      /\ pc' = ReturnTo("pair_begin", "tiered_returned")
              /\ err' = err
    /\ UNCHANGED <<inputVars, df, tableVars, num_tickets, top_regular, top_pairs,
                   ticket_numbers, remaining, picks, regular_nums,
                   valid_tickets, attempts, result>>

RECURSIVE GreedyFillFromBottom(_, _)
GreedyFillFromBottom(nums, ranked) ==
    IF Cardinality(nums) >= numbers_per_ticket THEN nums
    ELSE LET cands == {k \in DOMAIN ranked : ranked[k] \notin nums}
         IN IF cands = {} THEN nums
            ELSE GreedyFillFromBottom(
                     nums \cup {ranked[CHOOSE k \in cands :
                                           \A j \in cands : k >= j]},
                     ranked)

\* the fill loop of _generate_pair_based_tickets: add the best-ranked number
\* not yet present until the ticket is full or no candidate is left
RECURSIVE GreedyFill(_, _)
GreedyFill(nums, ranked) ==
    IF Cardinality(nums) >= numbers_per_ticket THEN nums
    ELSE LET cands == {k \in DOMAIN ranked : ranked[k] \notin nums}
         IN IF cands = {} THEN nums
            ELSE GreedyFill(nums \cup {ranked[CHOOSE k \in cands :
                                                  \A j \in cands : k <= j]},
                            ranked)

PairBasedBeginClearing ==
    /\ pc = "pair_begin"
    /\ top_pairs' = Slice(RankedPairs(pair_frequency), PairPool)
    /\ pair_frequency' = [p \in Pairs |-> 0]
    /\ pc' = "pair_based"
    /\ UNCHANGED <<inputVars, df, regular_scores, regular_den, special_scores,
                   special_den, err, num_tickets, top_regular, tickets, made,
                   ticket_numbers, remaining, picks, regular_nums,
                   valid_tickets, attempts, result>>

\* entry of _generate_pair_based_tickets: the top pairs are ranked once
PairBasedBegin ==
    /\ pc = "pair_begin"
    /\ top_pairs' = Slice(RankedPairs(pair_frequency), PairPool)
    /\ pc' = "pair_based"
    /\ UNCHANGED <<inputVars, df, tableVars, err, num_tickets, top_regular,
                   tickets, made, ticket_numbers, remaining, picks,
                   regular_nums, valid_tickets, attempts, result>>

\* top_pairs[:15]
PairSamplePool == Slice(top_pairs, PairSampleSize)

Endpoints(pairs) == {p[1] : p \in pairs} \cup {p[2] : p \in pairs}

\* the regular numbers one pair-based ticket can have: the endpoints of the
\* sampled pairs, filled up, sorted and cut to the ticket size
PairBasedOutcomes ==
    LET pool == PairSamplePool
    IN { Slice(SortedSeq(GreedyFill(Endpoints({pool[k] : k \in idx}),
                                    top_regular)),
               numbers_per_ticket)
         : idx \in SubsetsOfSize(DOMAIN pool, PairsToUse) }

\* the exceptions one ticket of _generate_pair_based_tickets raises
PairBasedErrors ==
    IF Len(PairSamplePool) < PairsToUse THEN {SAMPLE_TOO_LARGE}
    ELSE IF SpecialFails THEN ZeroTotalErrors
    ELSE {}

\* one ticket of _generate_pair_based_tickets
PairBasedTicket ==
    /\ pc = "pair_based"
    /\ IF PairBasedErrors # {}
       THEN /\ FailAny(PairBasedErrors)
            /\ UNCHANGED <<tickets, made>>
       ELSE \E regular \in PairBasedOutcomes,
               special_num \in SpecialChoices :
              /\ tickets' = Append(tickets, Ticket(regular, special_num))
              /\ IF made + 1 < count
                 THEN /\ made' = made + 1
                      /\ pc' = "pair_based"
                 ELSE /\ made' = 0
                      /\ pc' = ReturnTo("validate", "pair_returned")
              /\ err' = err
    /\ UNCHANGED <<inputVars, df, tableVars, num_tickets, top_regular,
                   top_pairs, ticket_numbers, remaining, picks, regular_nums,
                   valid_tickets, attempts, result>>

-----------------------------------------------------------------------------
(* Validator / deduplicator and the top-up loop *)

IsValidTicketNoSpecial(t) ==
    /\ Len(t[1]) = numbers_per_ticket
    /\ Cardinality(Range(t[1])) = numbers_per_ticket
    /\ \A i \in DOMAIN t[1] :
           REGULAR_NUMBERS_MIN <= t[1][i] /\ t[1][i] <= REGULAR_NUMBERS_MAX

IsValidTicket(t) ==
    /\ Len(t[1]) = numbers_per_ticket
    /\ Cardinality(Range(t[1])) = numbers_per_ticket
    /\ \A i \in DOMAIN t[1] :
           REGULAR_NUMBERS_MIN <= t[1][i] /\ t[1][i] <= REGULAR_NUMBERS_MAX
    /\ SPECIAL_NUMBERS_MIN <= t[2] /\ t[2] <= SPECIAL_NUMBERS_MAX

NotInAnything(t, list) == TRUE

\* "ticket not in valid_tickets"
NotIn(t, list) == \A i \in DOMAIN list : list[i] # t

RECURSIVE ValidateFromFront(_, _)
ValidateFromFront(cands, accepted) ==
    IF cands = <<>> THEN accepted
    ELSE ValidateFromFront(Tail(cands),
             IF IsValidTicket(Head(cands)) /\ NotIn(Head(cands), accepted)
             THEN <<Head(cands)>> \o accepted
             ELSE accepted)

RECURSIVE ValidateFrom(_, _)
ValidateFrom(cands, accepted) ==
    IF cands = <<>> THEN accepted
    ELSE ValidateFrom(Tail(cands),
             IF IsValidTicket(Head(cands)) /\ NotIn(Head(cands), accepted)
             THEN Append(accepted, Head(cands))
             ELSE accepted)

\* _validate_and_deduplicate(tickets)
ValidateAndDeduplicateList(cands) == ValidateFrom(cands, <<>>)

ValidateAndDeduplicate ==
    /\ pc = "validate"
    /\ valid_tickets' = ValidateAndDeduplicateList(tickets)
    /\ pc' = "topup"
    /\ UNCHANGED <<inputVars, df, tableVars, err, num_tickets, top_regular, top_pairs,
                   tickets, made, ticket_numbers, remaining, picks,
                   regular_nums, attempts, result>>

QuotaUnmetOrJustMet == Len(valid_tickets) <= num_tickets

\* the loop test "while len(valid_tickets) < num_tickets"
QuotaUnmet == Len(valid_tickets) < num_tickets

(* _generate_mixed_strategy_ticket, step by step.  Each step maps the set   *)
(* regular_nums to the sets it can become, or raises.                      *)

\* the pool sizes of the class at hand
MixedPool == IF game = "israeli" THEN MIXED_POOL ELSE MEGA_MIXED_POOL
MixedPairPool ==
    IF game = "israeli" THEN MIXED_PAIR_POOL ELSE MEGA_MIXED_PAIR_POOL
\* "for _ in range(3)"
MixedSeedCount == IF game = "israeli" THEN MIXED_SEEDS ELSE MEGA_MIXED_SEEDS

MixedSeedCandidatesRepeating(nums) ==
    Range(Slice(top_regular, MixedPool))

MixedSeedCandidates(nums) ==
    {n \in Range(Slice(top_regular, MixedPool)) : n \notin nums}

\* one iteration of the seeding loop raises: the total of the scores is zero
MixedSeedFails(nums) ==
    /\ MixedSeedCandidates(nums) # {}
    /\ TotalWeight(regular_scores, MixedSeedCandidates(nums)) = 0

\* one iteration of the seeding loop "for _ in range(3)"
MixedSeedStep(nums) ==
    IF MixedSeedCandidates(nums) = {} THEN {nums}
    ELSE {nums \cup {chosen} :
              chosen \in WeightedChoices(regular_scores,
                                         MixedSeedCandidates(nums))}

\* top_pairs of the mixed generator
MixedTopPairs == Range(Slice(RankedPairs(pair_frequency), MixedPairPool))

RelevantPairsAnyEndpoint(pairs, nums) ==
    {p \in pairs : (p[1] \in nums) \/ (p[2] \in nums)}

\* the top pairs with exactly one endpoint already chosen
RelevantPairs(pairs, nums) ==
    {p \in pairs : (p[1] \in nums) # (p[2] \in nums)}

PresentEndpoint(p, nums) == IF p[1] \in nums THEN p[1] ELSE p[2]

\* the endpoint of the chosen pair that is added
NewEndpoint(p, nums) == IF p[1] \notin nums THEN p[1] ELSE p[2]

MixedFillRunsShort(pairs, nums) ==
    /\ Cardinality(nums) < numbers_per_ticket - 1
    /\ RelevantPairs(pairs, nums) # {} \/ Numbers \ nums # {}

\* the fill loop runs once more
MixedFillRuns(pairs, nums) ==
    /\ Cardinality(nums) < numbers_per_ticket
    /\ RelevantPairs(pairs, nums) # {} \/ Numbers \ nums # {}

\* the exceptions one iteration of the fill loop can raise: the pair counts
\* are ints (count/0 raises ZeroDivisionError), the scores are as in
\* ZeroTotalErrors
MixedFillErrors(pairs, nums) ==
    LET relevant == RelevantPairs(pairs, nums)
    IN IF relevant # {}
       THEN IF TotalWeight(pair_frequency, relevant) = 0
               THEN {ZERO_DIVISION} ELSE {}
       ELSE IF TotalWeight(regular_scores, Numbers \ nums) = 0
            THEN ZeroTotalErrors ELSE {}

\* one iteration of the fill loop that does not raise
MixedFillStep(pairs, nums) ==
    LET relevant == RelevantPairs(pairs, nums)
    IN IF relevant # {}
       THEN {nums \cup {NewEndpoint(p, nums)} :
                 p \in WeightedChoices(pair_frequency, relevant)}
       ELSE {nums \cup {chosen} :
                 chosen \in WeightedChoices(regular_scores, Numbers \ nums)}

\* the values regular_nums can have after k seeding iterations
RECURSIVE MixedSeeded(_)
MixedSeeded(k) ==
    IF k = 0 THEN {{}}
    ELSE UNION {MixedSeedStep(nums) :
                    nums \in {m \in MixedSeeded(k - 1) : ~MixedSeedFails(m)}}

\* the values regular_nums can have in the fill loop: those already found
\* and whatever follows from the newly found ones
RECURSIVE MixedFillReach(_, _, _)
MixedFillReach(pairs, found, new) ==
    LET next == UNION {MixedFillStep(pairs, nums) :
                          nums \in {m \in new : /\ MixedFillRuns(pairs, m)
                                                /\ MixedFillErrors(pairs, m) = {}}}
    IN IF next \subseteq found THEN found
       ELSE MixedFillReach(pairs, found \cup next, next \ found)

\* every value regular_nums can have once the seeding loop is over
MixedReach ==
    MixedFillReach(MixedTopPairs, MixedSeeded(MixedSeedCount),
                   MixedSeeded(MixedSeedCount))

\* the regular numbers a call can return (sorted on return), given the
\* values regular_nums can reach
MixedOutcomesOf(pairs, reach) ==
    {nums \in reach : ~MixedFillRuns(pairs, nums)}

MixedOutcomes == MixedOutcomesOf(MixedTopPairs, MixedReach)

\* the exceptions a call can raise before it selects the special number
MixedErrorsOf(pairs, reach) ==
    LET seeding == IF \E j \in 0..(MixedSeedCount - 1) :
                         \E m \in MixedSeeded(j) : MixedSeedFails(m)
                   THEN ZeroTotalErrors ELSE {}
        filling == UNION {MixedFillErrors(pairs, nums) :
                              nums \in {m \in reach : MixedFillRuns(pairs, m)}}
    IN seeding \cup filling

MixedErrors == MixedErrorsOf(MixedTopPairs, MixedReach)

\* one iteration of the top-up loop: the loop test is true, the fallback
\* generator is called and its ticket is appended unless already in the list
\* (attempts counts the calls and saturates at MaxAttempts)
MixedStrategyTicket ==
    /\ pc = "topup"
    /\ QuotaUnmet
    /\ attempts' = Min(attempts + 1, MaxAttempts)
    /\ LET pairs == MixedTopPairs
           seeded == MixedSeeded(MixedSeedCount)
           reach == MixedFillReach(pairs, seeded, seeded)
           outcomes == MixedOutcomesOf(pairs, reach)
           errors == MixedErrorsOf(pairs, reach)
       IN \/ \E e \in errors \cup (IF outcomes # {} /\ SpecialFails
                                  THEN ZeroTotalErrors ELSE {}) :
               /\ Fail(e)
               /\ valid_tickets' = valid_tickets
          \/ /\ ~SpecialFails
             /\ \E nums \in outcomes, special_num \in SpecialChoices :
                  LET new_ticket == Ticket(SortedSeq(nums), special_num)
                  IN /\ valid_tickets' =
                            IF NotIn(new_ticket, valid_tickets)
                            THEN Append(valid_tickets, new_ticket)
                            ELSE valid_tickets
                     /\ UNCHANGED <<pc, err>>
    /\ UNCHANGED <<inputVars, df, tableVars, num_tickets, top_regular,
                   top_pairs, tickets, made, ticket_numbers, remaining, picks,
                   regular_nums, result>>

ReturnedWhole(list, n) == list

\* valid_tickets[:num_tickets]
ReturnedList(list, n) == Slice(list, n)

\* loop test false: return valid_tickets[:num_tickets]
ReturnTickets ==
    /\ pc = "topup"
    /\ ~QuotaUnmet
    /\ result' = ReturnedList(valid_tickets, num_tickets)
    /\ pc' = "done"
    /\ UNCHANGED <<inputVars, df, tableVars, err, num_tickets, top_regular, top_pairs,
                   tickets, made, ticket_numbers, remaining, picks,
                   regular_nums, valid_tickets, attempts>>

Next ==
    \/ LoadAndPrepareData
    \/ AnalyzeRegularNumbers
    \/ AnalyzeSpecialNumbers
    \/ AnalyzePairFrequency
    \/ GenerateTickets
    \/ CoreFirstPick
    \/ CoreComplete
    \/ TieredTicket
    \/ PairBasedBegin
    \/ PairBasedTicket
    \/ ValidateAndDeduplicate
    \/ MixedStrategyTicket
    \/ ReturnTickets

Spec == Init /\ [][Next]_vars

-----------------------------------------------------------------------------
(* One call of a generator on a predictor that has finished __init__.  The *)
(* mixed generator is written statement by statement; the three strategy   *)
(* generators are called with a count of their own and return their list.  *)

\* the call: top_regular is the ranking generate_tickets passes in
MixedBegin ==
    /\ pc = "ready"
    /\ top_regular' = TopRegular(regular_scores)
    /\ regular_nums' = {}
    /\ picks' = 0
    /\ pc' = "mixed_seed"
    /\ UNCHANGED <<inputVars, df, tableVars, err, num_tickets, top_pairs,
                   tickets, made, ticket_numbers, remaining, valid_tickets,
                   attempts, result>>

\* one iteration of the seeding loop; after the last one top_pairs is sorted
MixedSeed ==
    /\ pc = "mixed_seed"
    /\ IF MixedSeedFails(regular_nums)
       THEN /\ FailAny(ZeroTotalErrors)
            /\ UNCHANGED <<regular_nums, picks, top_pairs>>
       ELSE \E nums \in MixedSeedStep(regular_nums) :
              /\ regular_nums' = nums
              /\ picks' = picks + 1
              /\ IF picks + 1 < MixedSeedCount
                 THEN /\ pc' = "mixed_seed"
                      /\ top_pairs' = top_pairs
                 ELSE /\ pc' = "mixed_fill"
                      /\ top_pairs' = Slice(RankedPairs(pair_frequency),
                                            MixedPairPool)
              /\ err' = err
    /\ UNCHANGED <<inputVars, df, tableVars, num_tickets, top_regular, tickets,
                   made, ticket_numbers, remaining, valid_tickets, attempts,
                   result>>

\* one iteration of the fill loop
MixedFill ==
    /\ pc = "mixed_fill"
    /\ MixedFillRuns(Range(top_pairs), regular_nums)
    /\ IF MixedFillErrors(Range(top_pairs), regular_nums) # {}
       THEN /\ FailAny(MixedFillErrors(Range(top_pairs), regular_nums))
            /\ regular_nums' = regular_nums
       ELSE \E nums \in MixedFillStep(Range(top_pairs), regular_nums) :
              /\ regular_nums' = nums
              /\ UNCHANGED <<pc, err>>
    /\ UNCHANGED <<inputVars, df, tableVars, num_tickets, top_regular,
                   top_pairs, tickets, made, ticket_numbers, remaining, picks,
                   valid_tickets, attempts, result>>

\* the loop is left (test false, or break): sort, select the special number,
\* return the ticket
MixedReturn ==
    /\ pc = "mixed_fill"
    /\ ~MixedFillRuns(Range(top_pairs), regular_nums)
    /\ IF SpecialFails
       THEN /\ FailAny(ZeroTotalErrors)
            /\ result' = result
       ELSE \E special_num \in SpecialChoices :
              /\ result' = <<Ticket(SortedSeq(regular_nums), special_num)>>
              /\ pc' = "mixed_done"
              /\ err' = err
    /\ UNCHANGED <<inputVars, df, tableVars, num_tickets, top_regular,
                   top_pairs, tickets, made, ticket_numbers, remaining, picks,
                   regular_nums, valid_tickets, attempts>>

\* the call _generate_core_tickets(top_regular, count)
CoreBegin ==
    /\ pc = "ready"
    /\ \E c \in 1..MaxCount : count' = c
    /\ caller' = "direct"
    /\ top_regular' = TopRegular(regular_scores)
    /\ tickets' = <<>>
    /\ made' = 0
    /\ ticket_numbers' = <<>>
    /\ remaining' = Slice(TopRegular(regular_scores), CorePool)
    /\ picks' = 0
    /\ pc' = "core_pick"
    /\ UNCHANGED <<ctorVars, df, tableVars, err, num_tickets, top_pairs,
                   regular_nums, valid_tickets, attempts, result>>

\* the call _generate_tiered_tickets(top_regular, count)
TieredBegin ==
    /\ pc = "ready"
    /\ \E c \in 1..MaxCount : count' = c
    /\ caller' = "direct"
    /\ top_regular' = TopRegular(regular_scores)
    /\ tickets' = <<>>
    /\ made' = 0
    /\ pc' = "tiered"
    /\ UNCHANGED <<ctorVars, df, tableVars, err, num_tickets, top_pairs,
                   ticket_numbers, remaining, picks, regular_nums,
                   valid_tickets, attempts, result>>

\* the call _generate_pair_based_tickets(top_regular, count)
PairBegin ==
    /\ pc = "ready"
    /\ \E c \in 1..MaxCount : count' = c
    /\ caller' = "direct"
    /\ top_regular' = TopRegular(regular_scores)
    /\ tickets' = <<>>
    /\ made' = 0
    /\ pc' = "pair_begin"
    /\ UNCHANGED <<ctorVars, df, tableVars, err, num_tickets, top_pairs,
                   ticket_numbers, remaining, picks, regular_nums,
                   valid_tickets, attempts, result>>

-----------------------------------------------------------------------------
(* The generators over given tables.  regular_scores, special_scores and   *)
(* pair_frequency are plain attributes of the predictor; here they are the *)
(* tables of a one-draw history, any of the three replaced by an all-zero   *)
(* table, and each generator is called on its own.                         *)

ZeroTable(keys) == [k \in keys |-> 0]

InitTables ==
    /\ game = "israeli"
    /\ csv_rows \in GenFiles(game)
    /\ lookback_draws = LOOKBACK_DEFAULT
    /\ random_seed = "None"
    /\ numbers_per_ticket = NUMBERS_PER_TICKET
    /\ df = SortByDateDesc(csv_rows)
    /\ \E zeroed \in SUBSET {"regular", "special", "pair"} :
         LET w == HeadRows(SortByDateDesc(csv_rows), LOOKBACK_DEFAULT)
         IN /\ regular_scores =
                   IF "regular" \in zeroed THEN ZeroTable(Numbers)
                   ELSE ScoreTable(RegularValues(w), REGULAR_DECAY, Numbers)
            /\ regular_den = ScoreDen(RegularValues(w), REGULAR_DECAY, Numbers)
            /\ special_scores =
                   IF "special" \in zeroed THEN ZeroTable(Specials)
                   ELSE ScoreTable(SpecialValues(w), SPECIAL_DECAY, Specials)
            /\ special_den = ScoreDen(SpecialValues(w), SPECIAL_DECAY, Specials)
            /\ pair_frequency =
                   IF "pair" \in zeroed THEN ZeroTable(Pairs) ELSE PairTable(w)
    /\ pc = "ready"
    /\ err = "none"
    /\ num_tickets = 0
    /\ top_regular = <<>>
    /\ top_pairs = <<>>
    /\ tickets = <<>>
    /\ made = 0
    /\ ticket_numbers = <<>>
    /\ remaining = <<>>
    /\ picks = 0
    /\ regular_nums = {}
    /\ valid_tickets = <<>>
    /\ attempts = 0
    /\ result = <<>>
    /\ run = 1
    /\ first_result = <<>>
    /\ calls = 0
    /\ count = 0
    /\ caller = "none"
    /\ raw_rows = <<>>
    /\ ScraperIdle

NextTables ==
    \/ MixedBegin
    \/ MixedSeed
    \/ MixedFill
    \/ MixedReturn
    \/ CoreBegin
    \/ CoreFirstPick
    \/ CoreComplete
    \/ TieredBegin
    \/ TieredTicket
    \/ PairBegin
    \/ PairBasedBegin
    \/ PairBasedTicket

SpecTables == InitTables /\ [][NextTables]_vars

-----------------------------------------------------------------------------
(* Two runs of generate_predictions over the same file with the configured *)
(* random_seed.  No code reads random_seed and nothing seeds random or     *)
(* np.random, so the draws of the second run are as free as the first's.   *)

InitDet ==
    /\ game = "israeli"
    /\ csv_rows \in GenFiles(game)
    /\ lookback_draws = LOOKBACK_DEFAULT
    /\ random_seed = "42"
    /\ numbers_per_ticket = NUMBERS_PER_TICKET
    /\ InitCommon

\* the first run has returned: remember its output and run again
RunAgain ==
    /\ pc = "done"
    /\ run = 1
    /\ run' = 2
    /\ first_result' = [n |-> num_tickets, tickets |-> result]
    /\ df' = <<>>
    /\ regular_scores' = <<>>
    /\ regular_den' = 1
    /\ special_scores' = <<>>
    /\ special_den' = 1
    /\ pair_frequency' = <<>>
    /\ pc' = "start"
    /\ num_tickets' = 0
    /\ top_regular' = <<>>
    /\ top_pairs' = <<>>
    /\ tickets' = <<>>
    /\ made' = 0
    /\ ticket_numbers' = <<>>
    /\ remaining' = <<>>
    /\ picks' = 0
    /\ regular_nums' = {}
    /\ valid_tickets' = <<>>
    /\ attempts' = 0
    /\ result' = <<>>
    /\ count' = 0
    /\ caller' = "none"
    /\ UNCHANGED <<csv_rows, lookback_draws, random_seed, err, calls,
                   numbers_per_ticket, game, raw_rows, scraperVars>>

\* generate_tickets(num_tickets) of either run, for a positive num_tickets;
\* the second run is asked for as many tickets as the first
GenerateTicketsSeeded ==
    /\ GenerateTickets
    /\ num_tickets' \in 1..MaxSeededTickets
    /\ run = 2 => num_tickets' = first_result.n

NextDet ==
    \/ LoadAndPrepareData
    \/ AnalyzeRegularNumbers
    \/ AnalyzeSpecialNumbers
    \/ AnalyzePairFrequency
    \/ GenerateTicketsSeeded
    \/ CoreFirstPick
    \/ CoreComplete
    \/ TieredTicket
    \/ PairBasedBegin
    \/ PairBasedTicket
    \/ ValidateAndDeduplicate
    \/ MixedStrategyTicket
    \/ ReturnTickets
    \/ RunAgain

SpecDet == InitDet /\ [][NextDet]_vars

-----------------------------------------------------------------------------
(* _validate_and_deduplicate over given candidate lists: well-formed       *)
(* tickets, and tickets that break one rule each                           *)

CandidatePool ==
    { Ticket(<<1, 2, 3, 4, 5, 6>>, 1),
      Ticket(<<2, 3, 4, 5, 6, 8>>, 2),
      Ticket(<<6, 5, 4, 3, 2, 1>>, 1),
      Ticket(<<1, 2, 2, 4, 5, 6>>, 1),
      Ticket(<<1, 2, 3, 4, 5>>, 1),
      Ticket(<<1, 2, 3, 4, 5, 6, 7>>, 1),
      Ticket(<<0, 2, 3, 4, 5, 6>>, 1),
      Ticket(<<1, 2, 3, 4, 5, 9>>, 2),
      Ticket(<<1, 2, 3, 4, 5, 6>>, 0),
      Ticket(<<1, 2, 3, 4, 5, 6>>, 3) }

CandidateLists ==
    UNION {[1..n -> CandidatePool] : n \in 0..MaxCandidates}

InitValidate ==
    /\ game = "israeli"
    /\ csv_rows = <<>>
    /\ lookback_draws = LOOKBACK_DEFAULT
    /\ random_seed = "None"
    /\ numbers_per_ticket = NUMBERS_PER_TICKET
    /\ df = <<>>
    /\ regular_scores = <<>>
    /\ regular_den = 1
    /\ special_scores = <<>>
    /\ special_den = 1
    /\ pair_frequency = <<>>
    /\ pc = "validate"
    /\ err = "none"
    /\ num_tickets = 0
    /\ top_regular = <<>>
    /\ top_pairs = <<>>
    /\ tickets \in CandidateLists
    /\ made = 0
    /\ ticket_numbers = <<>>
    /\ remaining = <<>>
    /\ picks = 0
    /\ regular_nums = {}
    /\ valid_tickets = <<>>
    /\ attempts = 0
    /\ result = <<>>
    /\ run = 1
    /\ first_result = <<>>
    /\ calls = 0
    /\ count = 0
    /\ caller = "none"
    /\ raw_rows = <<>>
    /\ ScraperIdle

NextValidate == ValidateAndDeduplicate

SpecValidate == InitValidate /\ [][NextValidate]_vars

-----------------------------------------------------------------------------
(* Several generate_tickets calls on one predictor *)

InitCalls == Init

\* generate_tickets is called again after it has returned: every local
\* starts afresh, the attributes of the predictor are what they were
GenerateTicketsAgain ==
    /\ pc = "done"
    /\ calls < MaxCalls
    /\ calls' = calls + 1
    /\ \E n \in NumTicketsValues : num_tickets' = n
    /\ tickets' = <<>>
    /\ top_regular' = TopRegular(regular_scores)
    /\ top_pairs' = <<>>
    /\ made' = 0
    /\ ticket_numbers' = <<>>
    /\ remaining' = Slice(TopRegular(regular_scores), CorePool)
    /\ picks' = 0
    /\ regular_nums' = {}
    /\ valid_tickets' = <<>>
    /\ attempts' = 0
    /\ result' = <<>>
    /\ count' = STRATEGY_COUNT
    /\ caller' = "generate_tickets"
    /\ pc' = "core_pick"
    /\ UNCHANGED <<csv_rows, lookback_draws, random_seed, run, first_result,
                   numbers_per_ticket, game, raw_rows, scraperVars, df,
                   tableVars, err>>

NextCalls ==
    \/ Next
    \/ GenerateTicketsAgain

SpecCalls == InitCalls /\ [][NextCalls]_vars

-----------------------------------------------------------------------------
(* A predictor whose NUMBERS_PER_TICKET is overridden.  The constants are   *)
(* class attributes read through self; nothing checks them.  The override  *)
(* is either the class's own value or one more than the regular range      *)
(* holds.                                                                  *)

InitConfig ==
    /\ game = "israeli"
    /\ csv_rows \in GenFiles(game)
    /\ lookback_draws = LOOKBACK_DEFAULT
    /\ random_seed = "None"
    /\ numbers_per_ticket \in {NUMBERS_PER_TICKET, Cardinality(Numbers) + 1}
    /\ InitCommon

NextConfig == Next

SpecConfig == InitConfig /\ [][NextConfig]_vars

-----------------------------------------------------------------------------
(* One call of _generate_mixed_strategy_ticket by a predictor of either    *)
(* class built over any non-empty file.                                    *)

InitMixed ==
    /\ game \in Games
    /\ csv_rows \in GameFiles(game)
    /\ lookback_draws \in {1, LOOKBACK_DEFAULT}
    /\ random_seed = "None"
    /\ numbers_per_ticket = GameColumns(game)
    /\ InitCommon

NextMixed ==
    \/ LoadAndPrepareData
    \/ AnalyzeRegularNumbers
    \/ AnalyzeSpecialNumbers
    \/ AnalyzePairFrequency
    \/ MixedBegin
    \/ MixedSeed
    \/ MixedFill
    \/ MixedReturn

SpecMixed == InitMixed /\ [][NextMixed]_vars

\* the interpreter runs the call without suspension: a statement that can
\* run does run
SpecMixedFair == SpecMixed /\ WF_vars(NextMixed)

(* One call of any of the four generators by such a predictor *)

NextGenerators ==
    \/ LoadAndPrepareData
    \/ AnalyzeRegularNumbers
    \/ AnalyzeSpecialNumbers
    \/ AnalyzePairFrequency
    \/ MixedBegin
    \/ MixedSeed
    \/ MixedFill
    \/ MixedReturn
    \/ CoreBegin
    \/ CoreFirstPick
    \/ CoreComplete
    \/ TieredBegin
    \/ TieredTicket
    \/ PairBegin
    \/ PairBasedBegin
    \/ PairBasedTicket

SpecGenerators == InitMixed /\ [][NextGenerators]_vars

-----------------------------------------------------------------------------
(* generate_tickets from the call of _validate_and_deduplicate on, over a  *)
(* two-draw history.  The state it starts from is the one generate_tickets *)
(* is in when the three strategy generators have returned; of the lists    *)
(* they can return, the ones in which each generator repeated its ticket   *)
(* are taken, so that the top-up loop has tickets to add.                  *)

\* the numbers the first k weighted picks of a core ticket can have taken
RECURSIVE CorePicked(_)
CorePicked(k) ==
    IF k = 0 THEN {{}}
    ELSE UNION {
           LET rem == Range(CoreSet) \ s
           IN IF rem = {} THEN {s}
              ELSE {s \cup {c} :
                      c \in (IF TotalWeight(regular_scores, rem) > 0
                             THEN WeightedChoices(regular_scores, rem)
                             ELSE rem)}
           : s \in CorePicked(k - 1)}

\* CoreSet without the numbers picked, in rank order
CoreRemaining(s) == SelectSeq(CoreSet, LAMBDA n : n \notin s)

\* the tickets one iteration of _generate_core_tickets can append
CoreTickets ==
    UNION {
      UNION {
        {Ticket(SortedSeq(s \cup d \cup e), sp) :
             e \in CoreTopUps(s \cup d), sp \in SpecialChoices}
        : d \in CoreSecondDraws(CoreRemaining(s))}
      : s \in {x \in CorePicked(CORE_FIRST_PICKS) :
                   ~CoreSecondFails(CoreRemaining(x))}}

\* the tickets one iteration of _generate_tiered_tickets can append
TieredTickets ==
    UNION {
      {Ticket(SortedSeq(a \cup b \cup {c}), sp) :
           c \in Tier3, sp \in SpecialChoices}
      : a \in SubsetsOfSize(Tier1, TierPicks[1]),
        b \in SubsetsOfSize(Tier2, TierPicks[2])}

\* the tickets one iteration of _generate_pair_based_tickets can append
PairTickets ==
    {Ticket(regular, sp) : regular \in PairBasedOutcomes, sp \in SpecialChoices}

\* the candidate lists in which each generator made the same ticket
\* STRATEGY_COUNT times
RepeatedRuns ==
    {[i \in 1..(3 * STRATEGY_COUNT) |->
         IF i <= STRATEGY_COUNT THEN c
         ELSE IF i <= 2 * STRATEGY_COUNT THEN t ELSE p] :
        c \in CoreTickets, t \in TieredTickets, p \in PairTickets}

\* what generate_tickets holds when the three generators have returned
StrategiesReturned ==
    /\ top_regular = TopRegular(regular_scores)
    /\ top_pairs = Slice(RankedPairs(pair_frequency), PairPool)
    /\ Len(tickets) = 3 * STRATEGY_COUNT
    /\ \A i \in DOMAIN tickets :
           tickets[i] \in (IF i <= STRATEGY_COUNT THEN CoreTickets
                           ELSE IF i <= 2 * STRATEGY_COUNT THEN TieredTickets
                           ELSE PairTickets)
    /\ made = 0
    /\ ticket_numbers = <<>>
    /\ remaining = Slice(TopRegular(regular_scores), CorePool)
    /\ picks = 0
    /\ regular_nums = {}
    /\ valid_tickets = <<>>
    /\ attempts = 0
    /\ result = <<>>
    /\ count = STRATEGY_COUNT
    /\ caller = "generate_tickets"
    /\ err = "none"

\* the state generate_tickets is in at its call of
\* _validate_and_deduplicate is such a state
ValidateStartsFromStrategies == pc = "validate" => StrategiesReturned

InitTopUp ==
    /\ game \in Games
    /\ csv_rows \in TwoDrawFiles(game)
    /\ lookback_draws = LOOKBACK_DEFAULT
    /\ random_seed = "None"
    /\ numbers_per_ticket = GameColumns(game)
    /\ df = SortByDateDesc(csv_rows)
    /\ LET w == HeadRows(SortByDateDesc(csv_rows), LOOKBACK_DEFAULT)
       IN /\ regular_scores = ScoreTable(RegularValues(w), REGULAR_DECAY, Numbers)
          /\ regular_den = ScoreDen(RegularValues(w), REGULAR_DECAY, Numbers)
          /\ special_scores = ScoreTable(SpecialValues(w), SPECIAL_DECAY, Specials)
          /\ special_den = ScoreDen(SpecialValues(w), SPECIAL_DECAY, Specials)
          /\ pair_frequency = PairTable(w)
    /\ pc = "validate"
    /\ err = "none"
    /\ num_tickets \in NumTicketsValues
    /\ top_regular = TopRegular(regular_scores)
    /\ top_pairs = Slice(RankedPairs(pair_frequency), PairPool)
    /\ tickets \in RepeatedRuns
    /\ made = 0
    /\ ticket_numbers = <<>>
    /\ remaining = Slice(TopRegular(regular_scores), CorePool)
    /\ picks = 0
    /\ regular_nums = {}
    /\ valid_tickets = <<>>
    /\ attempts = 0
    /\ result = <<>>
    /\ run = 1
    /\ first_result = <<>>
    /\ calls = 0
    /\ count = STRATEGY_COUNT
    /\ caller = "generate_tickets"
    /\ raw_rows = <<>>
    /\ ScraperIdle

NextTopUp ==
    \/ ValidateAndDeduplicate
    \/ MixedStrategyTicket
    \/ ReturnTickets

SpecTopUp == InitTopUp /\ [][NextTopUp]_vars

-----------------------------------------------------------------------------
(* IsraeliLotteryProcessor.process (src/src/scrapers/                      *)
(* israeli_lottery_scraper.py) writes the file the predictor reads.  A    *)
(* cell of the raw file is <<v>>, or <<>> when the value is missing.       *)

FILL_VALUE == 1
FILTER_SPECIAL_MAX == 2
FILTER_NUMBER_MAX == 8

RawRow(n1, n2, n3, n4, n5, n6, sp) ==
    [numbers |-> <<n1, n2, n3, n4, n5, n6>>, special |-> sp]

\* raw rows: a valid draw, missing numbers, a zero, values above the ranges,
\* a missing special number, a repeated number
RawRowPool ==
    { RawRow(<<1>>, <<2>>, <<3>>, <<4>>, <<5>>, <<6>>, <<1>>),
      RawRow(<<1>>, <<2>>, <<>>, <<4>>, <<5>>, <<6>>, <<2>>),
      RawRow(<<2>>, <<3>>, <<4>>, <<5>>, <<6>>, <<>>, <<1>>),
      RawRow(<<0>>, <<2>>, <<3>>, <<4>>, <<5>>, <<6>>, <<1>>),
      RawRow(<<1>>, <<2>>, <<3>>, <<4>>, <<5>>, <<9>>, <<1>>),
      RawRow(<<1>>, <<2>>, <<3>>, <<4>>, <<5>>, <<6>>, <<3>>),
      RawRow(<<8>>, <<7>>, <<6>>, <<5>>, <<4>>, <<3>>, <<>>),
      RawRow(<<3>>, <<3>>, <<4>>, <<5>>, <<6>>, <<7>>, <<0>>) }

\* raw files of up to MaxHistory rows with pairwise distinct dates
RawFiles ==
    UNION {
        { [i \in 1..n |-> [date |-> d[i], numbers |-> r[i].numbers,
                           special |-> r[i].special]] :
              r \in [1..n -> RawRowPool], d \in Permutations1(n) }
        : n \in 0..MaxHistory }

\* df.fillna(1.0): one cell
FillNa(cell) == IF cell = <<>> THEN FILL_VALUE ELSE cell[1]

\* df.fillna(1.0, inplace=True)
FilledRows(rows) ==
    [i \in DOMAIN rows |->
        [date |-> rows[i].date,
         numbers |-> [c \in DOMAIN rows[i].numbers |->
                         FillNa(rows[i].numbers[c])],
         special |-> FillNa(rows[i].special)]]

\* df[df["Special"] <= 7], then df[~(df[number_cols] > 37).any(axis=1)]
KeepsRow(row) ==
    /\ row.special <= FILTER_SPECIAL_MAX
    /\ ~(\E c \in DOMAIN row.numbers : row.numbers[c] > FILTER_NUMBER_MAX)

\* the rows written to the output file: filled, filtered, sorted by date
\* descending
CleanedRows(rows) ==
    SortByDateDesc(SelectSeq(FilledRows(rows), KeepsRow))

InitProcess ==
    /\ raw_rows \in RawFiles
    /\ csv_rows = <<>>
    /\ lookback_draws = LOOKBACK_DEFAULT
    /\ random_seed = "None"
    /\ numbers_per_ticket = NUMBERS_PER_TICKET
    /\ game = "israeli"
    /\ df = <<>>
    /\ regular_scores = <<>>
    /\ regular_den = 1
    /\ special_scores = <<>>
    /\ special_den = 1
    /\ pair_frequency = <<>>
    /\ pc = "raw"
    /\ err = "none"
    /\ num_tickets = 0
    /\ top_regular = <<>>
    /\ top_pairs = <<>>
    /\ tickets = <<>>
    /\ made = 0
    /\ ticket_numbers = <<>>
    /\ remaining = <<>>
    /\ picks = 0
    /\ regular_nums = {}
    /\ valid_tickets = <<>>
    /\ attempts = 0
    /\ result = <<>>
    /\ run = 1
    /\ first_result = <<>>
    /\ calls = 0
    /\ count = 0
    /\ caller = "none"
    /\ ScraperIdle

\* IsraeliLotteryProcessor.process: the cleaned file is what the predictor
\* is then built over
Process ==
    /\ pc = "raw"
    /\ csv_rows' = CleanedRows(raw_rows)
    /\ pc' = "start"
    /\ UNCHANGED <<raw_rows, lookback_draws, random_seed, run, first_result,
                   calls, count, caller, numbers_per_ticket, game,
                   scraperVars, df,
                   tableVars, genVars, err>>

NextProcess ==
    \/ Process
    \/ LoadAndPrepareData
    \/ AnalyzeRegularNumbers
    \/ AnalyzeSpecialNumbers
    \/ AnalyzePairFrequency

SpecProcess == InitProcess /\ [][NextProcess]_vars

-----------------------------------------------------------------------------
(* main() of the two scrapers: scrape_historical_data run for one year    *)
(* (the request windows of the "for year" body and the rows fetch_data     *)
(* returns for each), then save_data.  The web server's answer to a        *)
(* request is a free choice.  Dates are datetimes: datetime(y, m, d) is    *)
(* midnight, datetime.today() is later in its day, and adding a timedelta  *)
(* of whole days keeps the time of day.  The Mega Millions file is the one *)
(* MegaMillionsPredictor is built over.                                    *)

MaxIntervalWeeks == 53
MaxToday == 20
\* rows the requests of a run return in all
MaxFetched == 2

\* the fourteen calendars: weekday of January 1 (Monday = 0) and length
Years == [jan1 : 0..6, days : {365, 366}]

\* date + timedelta(days=n)
AddDays(date, n) == DateTime(date.day + n, date.tod)

\* a < b on datetimes
DateBefore(a, b) == a.day < b.day \/ (a.day = b.day /\ a.tod < b.tod)

\* min(a, b)
MinDate(a, b) == IF DateBefore(b, a) THEN b ELSE a

\* timedelta(weeks=interval_weeks), in days
IntervalDays == 7 * interval_weeks

\* datetime(year, 1, 1) and datetime(year, 12, 31)
January1 == DateTime(0, 0)
December31 == DateTime(year.days - 1, 0)

\* today is a day of the year at hand (the current year), or a day of a
\* later year
Todays(y) == {DateTime(d, 1) : d \in (0..MaxToday) \cup {y.days}}

\* year < current_year
PastYear == today.day >= year.days

InitScrape ==
    /\ interval_weeks \in 0..MaxIntervalWeeks
    /\ year \in Years
    /\ today \in Todays(year)
    /\ start_date = January1
    /\ end_of_year = January1
    /\ requests = <<>>
    /\ all_results = <<>>
    /\ scraped = NoDataFrame
    /\ raw_rows = <<>>
    /\ csv_rows = <<>>
    /\ lookback_draws = LOOKBACK_DEFAULT
    /\ random_seed = "None"
    /\ numbers_per_ticket = GameColumns(game)
    /\ df = <<>>
    /\ regular_scores = <<>>
    /\ regular_den = 1
    /\ special_scores = <<>>
    /\ special_den = 1
    /\ pair_frequency = <<>>
    /\ pc = "scrape"
    /\ err = "none"
    /\ num_tickets = 0
    /\ top_regular = <<>>
    /\ top_pairs = <<>>
    /\ tickets = <<>>
    /\ made = 0
    /\ ticket_numbers = <<>>
    /\ remaining = <<>>
    /\ picks = 0
    /\ regular_nums = {}
    /\ valid_tickets = <<>>
    /\ attempts = 0
    /\ result = <<>>
    /\ run = 1
    /\ first_result = <<>>
    /\ calls = 0
    /\ count = 0
    /\ caller = "none"

scrapeFixed == <<csv_rows, lookback_draws, random_seed, run, first_result,
                 calls, count, caller, numbers_per_ticket, game, raw_rows,
                 interval_weeks,
                 year, today, df, tableVars, genVars, err>>

(* MegaMillionsScraper *)

\* draws of an API response, each with its drawDate and its megaBall (<<>>
\* when the field is absent) and its winningNumbers: six numbers out of
\* order, a number twice, a number above the range, no date, four numbers
\* only, a Mega Ball of 0, no Mega Ball
ApiDraws ==
    { [drawDate |-> <<12>>, winningNumbers |-> <<7, 2, 3, 4, 5, 1>>,
       megaBall |-> <<2>>],
      [drawDate |-> <<7>>, winningNumbers |-> <<6, 3, 4, 3, 5>>,
       megaBall |-> <<1>>],
      [drawDate |-> <<5>>, winningNumbers |-> <<1, 2, 3, 4, 9>>,
       megaBall |-> <<1>>],
      [drawDate |-> <<>>, winningNumbers |-> <<1, 2, 3, 4, 5>>,
       megaBall |-> <<1>>],
      [drawDate |-> <<9>>, winningNumbers |-> <<1, 2, 3, 4>>,
       megaBall |-> <<1>>],
      [drawDate |-> <<9>>, winningNumbers |-> <<1, 2, 3, 4, 5>>,
       megaBall |-> <<0>>],
      [drawDate |-> <<9>>, winningNumbers |-> <<1, 2, 3, 4, 5>>,
       megaBall |-> <<>>] }

\* _parse_draw returns None: no date, fewer than five numbers, or a Mega
\* Ball that is absent or falsy ("x or ..." passes a 0 over)
ParseDrawFails(draw) ==
    \/ draw.drawDate = <<>>
    \/ Len(draw.winningNumbers) < MEGA_NUMBERS_PER_TICKET
    \/ draw.megaBall = <<>>
    \/ draw.megaBall[1] = 0

\* _parse_draw: the first five numbers sorted, then the Mega Ball (written
\* with a leading zero, which reading the file back as integers drops)
ParseDraw(draw) ==
    [date |-> draw.drawDate[1],
     numbers |-> Sorted(Slice(draw.winningNumbers, MEGA_NUMBERS_PER_TICKET)),
     special |-> draw.megaBall[1]]

\* fetch_data: the rows of the draws that parse
RECURSIVE FetchData(_)
FetchData(response) ==
    IF response = <<>> THEN <<>>
    ELSE (IF ParseDrawFails(Head(response)) THEN <<>>
          ELSE <<ParseDraw(Head(response))>>) \o FetchData(Tail(response))

InitMegaScrape ==
    /\ game = "megamillions"
    /\ InitScrape
    /\ interval_weeks >= 1

\* the head of the "for year" body
MegaYearBegin ==
    /\ pc = "scrape"
    /\ start_date' = January1
    /\ end_of_year' = IF PastYear THEN December31 ELSE today
    /\ pc' = "mm_loop"
    /\ UNCHANGED <<scrapeFixed, requests, all_results, scraped>>

\* while start_date < end_of_year
MegaLoopTest == DateBefore(start_date, end_of_year)

\* one iteration of the while loop: one request, its rows added to
\* all_results, then the next start; the response holds no draw (also
\* when the request failed) or one
MegaRequest ==
    /\ pc = "mm_loop"
    /\ MegaLoopTest
    /\ LET end_date == MinDate(AddDays(start_date, IntervalDays), end_of_year)
       IN /\ requests' = Append(requests, <<start_date.day, end_date.day>>)
          /\ start_date' = AddDays(end_date, 1)
    /\ \E response \in {<<>>} \cup {<<draw>> : draw \in ApiDraws} :
         LET interval_data == FetchData(response)
         IN /\ Len(all_results) + Len(interval_data) <= MaxFetched
            /\ all_results' = all_results \o interval_data
    /\ UNCHANGED <<scrapeFixed, end_of_year, pc, scraped>>

\* the loop test fails: the year is done
MegaYearDone ==
    /\ pc = "mm_loop"
    /\ ~MegaLoopTest
    /\ pc' = "mm_done"
    /\ UNCHANGED <<scrapeFixed, start_date, end_of_year, requests,
                   all_results, scraped>>

\* the end of scrape_historical_data: None when nothing was collected,
\* else the rows sorted by date, latest first
ScrapeReturn ==
    IF all_results = <<>> THEN NoDataFrame
    ELSE DataFrame(SortByDateDesc(all_results))

\* scrape_historical_data returns to main()
MegaReturn ==
    /\ pc = "mm_done"
    /\ scraped' = ScrapeReturn
    /\ pc' = "mm_returned"
    /\ UNCHANGED <<scrapeFixed, start_date, end_of_year, requests,
                   all_results>>

\* main(): "if df is not None: scraper.save_data(df)" writes the file the
\* predictor is then built over
MegaSaveData ==
    /\ pc = "mm_returned"
    /\ ~scraped.none
    /\ csv_rows' = scraped.rows
    /\ pc' = "start"
    /\ UNCHANGED <<raw_rows, lookback_draws, random_seed, run, first_result,
                   calls, count, caller, numbers_per_ticket, game,
                   scraperVars, df, tableVars, genVars, err>>

\* main(): df is None, nothing is written
MegaNoData ==
    /\ pc = "mm_returned"
    /\ scraped.none
    /\ pc' = "mm_no_data"
    /\ UNCHANGED <<scrapeFixed, start_date, end_of_year, requests,
                   all_results, scraped>>

NextMegaScrape ==
    \/ MegaYearBegin
    \/ MegaRequest
    \/ MegaYearDone
    \/ MegaReturn
    \/ MegaSaveData
    \/ MegaNoData
    \/ LoadAndPrepareData
    \/ AnalyzeRegularNumbers
    \/ AnalyzeSpecialNumbers
    \/ AnalyzePairFrequency

SpecMegaScrape == InitMegaScrape /\ [][NextMegaScrape]_vars

(* PowerballScraper *)

\* DRAWING_DAYS = [0, 2, 5]
DRAWING_DAYS == {0, 2, 5}

\* date.weekday()
Weekday(date) == (year.jan1 + date.day) % 7

\* _get_next_drawing_date
RECURSIVE GetNextDrawingDate(_)
GetNextDrawingDate(date) ==
    IF Weekday(date) \in DRAWING_DAYS THEN date
    ELSE GetNextDrawingDate(AddDays(date, 1))

GetPreviousDrawingDateForward(date) == GetNextDrawingDate(date)

\* _get_previous_drawing_date
RECURSIVE GetPreviousDrawingDate(_)
GetPreviousDrawingDate(date) ==
    IF Weekday(date) \in DRAWING_DAYS THEN date
    ELSE GetPreviousDrawingDate(AddDays(date, 0 - 1))

\* cards of a result page, each with its title and its powerball element
\* (<<>> when the element is absent) and its white balls: a draw, a number
\* above the range, no title, six white balls, no powerball element
Cards ==
    { [card_title |-> <<12>>, white_balls |-> <<7, 2, 3, 4, 5>>,
       powerball |-> <<2>>],
      [card_title |-> <<5>>, white_balls |-> <<1, 2, 3, 4, 9>>,
       powerball |-> <<1>>],
      [card_title |-> <<>>, white_balls |-> <<1, 2, 3, 4, 5>>,
       powerball |-> <<1>>],
      [card_title |-> <<9>>, white_balls |-> <<1, 2, 3, 4, 5, 6>>,
       powerball |-> <<1>>],
      [card_title |-> <<9>>, white_balls |-> <<1, 2, 3, 4, 5>>,
       powerball |-> <<>>] }

\* "if len(numbers) != 5"
POWERBALL_NUMBERS == 5

\* the card is skipped ("continue")
CardSkipped(card) ==
    \/ card.card_title = <<>>
    \/ Len(card.white_balls) # POWERBALL_NUMBERS
    \/ card.powerball = <<>>

\* the row of a card
CardRow(card) ==
    [date |-> card.card_title[1], numbers |-> card.white_balls,
     special |-> card.powerball[1]]

\* fetch_data: the rows of the cards that are not skipped
RECURSIVE FetchCards(_)
FetchCards(page) ==
    IF page = <<>> THEN <<>>
    ELSE (IF CardSkipped(Head(page)) THEN <<>>
          ELSE <<CardRow(Head(page))>>) \o FetchCards(Tail(page))

InitPowerballScrape ==
    /\ game = "powerball"
    /\ InitScrape

\* the head of the "for year" body
PowerballYearBegin ==
    /\ pc = "scrape"
    /\ start_date' = GetNextDrawingDate(January1)
    /\ end_of_year' = GetPreviousDrawingDate(MinDate(December31, today))
    /\ pc' = "pb_loop"
    /\ UNCHANGED <<scrapeFixed, requests, all_results, scraped>>

\* while current_date <= year_end
PowerballLoopTest == ~DateBefore(end_of_year, start_date)

\* one iteration of the while loop: a request, its rows added to
\* all_results, and the next start; or break.  The page holds no card
\* (also when the request failed) or one
PowerballRequest ==
    /\ pc = "pb_loop"
    /\ PowerballLoopTest
    /\ LET interval_end ==
               GetPreviousDrawingDate(
                   MinDate(AddDays(start_date, IntervalDays), end_of_year))
       IN IF ~DateBefore(interval_end, start_date)
          THEN /\ requests' = Append(requests,
                                     <<start_date.day, interval_end.day>>)
               /\ start_date' = GetNextDrawingDate(AddDays(interval_end, 1))
               /\ \E page \in {<<>>} \cup {<<card>> : card \in Cards} :
                    LET interval_data == FetchCards(page)
                    IN /\ Len(all_results) + Len(interval_data) <= MaxFetched
                       /\ all_results' = all_results \o interval_data
               /\ pc' = pc
          ELSE /\ pc' = "pb_break"
               /\ UNCHANGED <<requests, start_date, all_results>>
    /\ UNCHANGED <<scrapeFixed, end_of_year, scraped>>

\* the loop test fails: the year is done
PowerballYearDone ==
    /\ pc = "pb_loop"
    /\ ~PowerballLoopTest
    /\ pc' = "pb_done"
    /\ UNCHANGED <<scrapeFixed, start_date, end_of_year, requests,
                   all_results, scraped>>

\* scrape_historical_data returns to main(), after the loop test failed or
\* after the break
PowerballReturn ==
    /\ pc \in {"pb_done", "pb_break"}
    /\ scraped' = ScrapeReturn
    /\ pc' = "pb_returned"
    /\ UNCHANGED <<scrapeFixed, start_date, end_of_year, requests,
                   all_results>>

\* main(): "if df is not None: scraper.save_data(df)"
PowerballSaveData ==
    /\ pc = "pb_returned"
    /\ ~scraped.none
    /\ csv_rows' = scraped.rows
    /\ pc' = "pb_saved"
    /\ UNCHANGED <<raw_rows, lookback_draws, random_seed, run, first_result,
                   calls, count, caller, numbers_per_ticket, game,
                   scraperVars, df, tableVars, genVars, err>>

\* main(): df is None, nothing is written
PowerballNoData ==
    /\ pc = "pb_returned"
    /\ scraped.none
    /\ pc' = "pb_no_data"
    /\ UNCHANGED <<scrapeFixed, start_date, end_of_year, requests,
                   all_results, scraped>>

NextPowerballScrape ==
    \/ PowerballYearBegin
    \/ PowerballRequest
    \/ PowerballYearDone
    \/ PowerballReturn
    \/ PowerballSaveData
    \/ PowerballNoData

SpecPowerballScrape == InitPowerballScrape /\ [][NextPowerballScrape]_vars

\* main() is synchronous code (fetch_data returns, time.sleep returns): a
\* statement that can run does run
SpecPowerballScrapeFair ==
    SpecPowerballScrape /\ WF_vars(NextPowerballScrape)

-----------------------------------------------------------------------------
(* Properties *)

\* a ticket has NUMBERS_PER_TICKET pairwise distinct in-range regular numbers
\* and an in-range special number
WellFormed(t) ==
    /\ Len(t[1]) = numbers_per_ticket
    /\ \A j, k \in DOMAIN t[1] : j # k => t[1][j] # t[1][k]
    /\ \A j \in DOMAIN t[1] : t[1][j] \in Numbers
    /\ t[2] \in Specials

NoDuplicates(list) ==
    \A i, j \in DOMAIN list : i # j => list[i] # list[j]

\* C1: every ticket of the list generate_tickets returns, and of the
\* accepted list at every iteration of the top-up loop, has exactly
\* NUMBERS_PER_TICKET pairwise distinct regular numbers within the regular
\* range and a special number within the special range, fallback tickets
\* (never validated) included.
C1_ReturnedTicketsWellFormed ==
    /\ pc \in {"topup", "done"} => \A i \in DOMAIN valid_tickets :
                                       WellFormed(valid_tickets[i])
    /\ pc = "done" => \A i \in DOMAIN result : WellFormed(result[i])

\* a returned list whose last ticket came from the fallback generator
C1_Witness ==
    /\ pc = "done"
    /\ attempts > 0
    /\ Len(result) = MaxTickets
    /\ \A i \in DOMAIN tickets : tickets[i] # result[Len(result)]

\* C2: the accepted list is duplicate-free after _validate_and_deduplicate
\* and after every iteration of the top-up loop, and so is the returned list.
C2_NoDuplicateTickets ==
    /\ pc \in {"topup", "done"} => NoDuplicates(valid_tickets)
    /\ pc = "done" => NoDuplicates(result)

\* the validator dropped a duplicate candidate and the top-up loop has
\* rejected a fallback ticket that was already accepted
C2_Witness ==
    /\ pc = "topup"
    /\ attempts > 0
    /\ QuotaUnmet
    /\ \E i, j \in DOMAIN tickets : i # j /\ tickets[i] = tickets[j]
    /\ Len(valid_tickets) < Len(tickets)
    /\ \A k \in DOMAIN valid_tickets :
           \E i \in DOMAIN tickets : tickets[i] = valid_tickets[k]

\* C3: whenever generate_tickets(num_tickets) returns for a positive
\* num_tickets, the returned list has exactly num_tickets entries.
C3_ExactCount ==
    (pc = "done" /\ num_tickets > 0) => Len(result) = num_tickets

\* a return that cut the accepted list down to num_tickets
C3_Witness ==
    /\ pc = "done"
    /\ num_tickets > 0
    /\ Len(valid_tickets) > num_tickets
    /\ Len(result) = num_tickets

\* the tickets one call of the fallback generator can return
MixedTickets ==
    {Ticket(SortedSeq(nums), sp) : nums \in MixedOutcomes, sp \in SpecialChoices}

\* C4: the top-up loop eventually exits under fair random choices.  The
\* accepted list only grows and the set of tickets the fallback generator can
\* return is fixed by the tables, so the loop can exit only if, whenever its
\* test is true, the generator can still return a ticket that is not in the
\* list; stated as that invariant.
C4_TopUpCanProgress ==
    (pc = "topup" /\ QuotaUnmet) =>
        \E t \in MixedTickets : NotIn(t, valid_tickets)

\* C5: the top-up loop is bounded: once the fallback generator has been
\* called the maximum number of times (MaxAttempts here) and the quota is
\* still unmet, generation has ended with an error instead of being back at
\* the loop test.
C5_TopUpBounded ==
    (num_tickets > 0 /\ attempts = MaxAttempts /\ QuotaUnmet) => pc = "failed"

\* C6: with an empty analysis window the score engine does not fail and
\* every regular and special score it has written is 0.
C6_EmptyWindowAllZero ==
    (pc \notin {"start", "loaded"} /\ RecentDf = <<>>) =>
        /\ pc # "failed"
        /\ \A n \in DOMAIN regular_scores : regular_scores[n] = 0
        /\ \A n \in DOMAIN special_scores : special_scores[n] = 0

\* C7: a weighted sampling step that meets a total weight of zero falls back
\* to a uniform choice; whatever the tables, all-zero tables included, no
\* generator stops on the division by the zero total.
C7_ZeroTotalNeverAnError ==
    err \notin {ZERO_DIVISION, NAN_WEIGHTS}

Choose2(k) == (k * (k - 1)) \div 2

\* C8: after analysis both score tables have one entry per integer of their
\* range and every score lies in [0,1]; when the window is non-empty, some
\* number has normalized frequency 1 (its count is the divisor max_freq) and
\* some number has normalized recency 1, in either table.
C8_ScoresNormalized ==
    pc = "ready" =>
        /\ DOMAIN regular_scores = Numbers
        /\ DOMAIN special_scores = Specials
        /\ \A n \in Numbers :
               0 <= regular_scores[n] /\ regular_scores[n] <= regular_den
        /\ \A n \in Specials :
               0 <= special_scores[n] /\ special_scores[n] <= special_den
        /\ RecentDf # <<>> =>
               LET rv == RegularValues(RecentDf)
                   sv == SpecialValues(RecentDf)
               IN /\ \E n \in Numbers : CountOf(rv, n) = MaxFreq(rv, Numbers)
                  /\ \E n \in Numbers :
                         RecencyOf(rv, REGULAR_DECAY, n)
                             = MaxRecency(rv, REGULAR_DECAY, Numbers)
                  /\ \E n \in Specials : CountOf(sv, n) = MaxFreq(sv, Specials)
                  /\ \E n \in Specials :
                         RecencyOf(sv, SPECIAL_DECAY, n)
                             = MaxRecency(sv, SPECIAL_DECAY, Specials)

\* two draws analysed, with a score strictly between 0 and 1, a score of 0
\* and a score of 1
C8_Witness ==
    /\ pc = "ready"
    /\ Len(RecentDf) = MaxHistory
    /\ \E n \in Numbers : 0 < regular_scores[n] /\ regular_scores[n] < regular_den
    /\ \E n \in Numbers : regular_scores[n] = 0
    /\ \E n \in Numbers : regular_scores[n] = regular_den

\* the rows of the window that hold both numbers of the pair
RowsWithBoth(w, p) ==
    {i \in DOMAIN w : \E x, y \in DOMAIN w[i].numbers :
                          w[i].numbers[x] = p[1] /\ w[i].numbers[y] = p[2]}

\* C9: after _analyze_pair_frequency over a window of W valid records the
\* table has a non-negative count for every pair (i,j), i<j, of the range;
\* the count of a pair is the number of records that hold both its numbers
\* (whatever their order in the record); and the counts sum to W * C(k,2).
C9_PairTableSum ==
    pc = "ready" =>
        /\ DOMAIN pair_frequency = Pairs
        /\ \A p \in Pairs :
               /\ pair_frequency[p] >= 0
               /\ pair_frequency[p] = Cardinality(RowsWithBoth(RecentDf, p))
        /\ SumOver(pair_frequency, Pairs)
               = Len(RecentDf) * Choose2(NUMBERS_PER_TICKET)

\* a window of two records, one of them not in ascending order, with a pair
\* seen twice and a pair never seen
C9_Witness ==
    /\ pc = "ready"
    /\ Len(RecentDf) = MaxHistory
    /\ \E i \in DOMAIN RecentDf : \E x \in 1..(NUMBERS_PER_TICKET - 1) :
           RecentDf[i].numbers[x] > RecentDf[i].numbers[x + 1]
    /\ \E p \in Pairs : pair_frequency[p] >= 2
    /\ \E p \in Pairs : pair_frequency[p] = 0

\* C10: with the configured seed and the same history, two runs asked for
\* the same number of tickets return the same list.
C10_SameSeedSameOutput ==
    (run = 2 /\ pc = "done" /\ num_tickets = first_result.n)
        => result = first_result.tickets

\* a candidate equal to this one comes earlier in the list
SeenBefore(cands, i) == \E j \in 1..(i - 1) : cands[j] = cands[i]

\* C11: _validate_and_deduplicate discards a candidate if and only if it is
\* malformed (not exactly NUMBERS_PER_TICKET distinct regular numbers, a
\* regular number out of range, the special number out of range) or equals a
\* candidate already accepted; every other candidate is in the result
\* exactly once, and the result holds nothing else.
C11_DiscardIff ==
    pc = "topup" =>
        /\ \A i \in DOMAIN tickets :
               Cardinality({k \in DOMAIN valid_tickets :
                                valid_tickets[k] = tickets[i]})
                   = IF WellFormed(tickets[i]) THEN 1 ELSE 0
        /\ \A k \in DOMAIN valid_tickets :
               \E i \in DOMAIN tickets : tickets[i] = valid_tickets[k]
        /\ Len(valid_tickets) =
               Cardinality({i \in DOMAIN tickets :
                                WellFormed(tickets[i]) /\ ~SeenBefore(tickets, i)})

\* a list with a repeated well-formed candidate and a malformed one: two
\* discarded, one accepted
C11_Witness ==
    /\ pc = "topup"
    /\ Len(tickets) = MaxCandidates
    /\ Len(valid_tickets) = 1
    /\ \E i, j \in DOMAIN tickets :
           i # j /\ tickets[i] = tickets[j] /\ WellFormed(tickets[i])
    /\ \E i \in DOMAIN tickets : ~WellFormed(tickets[i])

\* the positions of the candidates that are well formed and not seen before
KeptIndices(cands) ==
    {i \in DOMAIN cands : WellFormed(cands[i]) /\ ~SeenBefore(cands, i)}

\* those candidates, in the order of their positions
FirstSeenOrder(cands) ==
    LET kept == KeptIndices(cands)
    IN [k \in 1..Cardinality(kept) |->
           cands[CHOOSE i \in kept :
                     Cardinality({j \in kept : j < i}) = k - 1]]

IsPrefix(s, t) == Len(s) <= Len(t) /\ SubSeq(t, 1, Len(s)) = s

\* C12: the returned list is in acceptance order.  The accepted list starts
\* with the first-seen well-formed candidates in candidate order (core, then
\* tiered, then pair-based); every step of the top-up loop leaves the list
\* as it is or appends to its end; and the returned list is a prefix of it.
C12_AcceptanceOrder ==
    /\ [](/\ pc \in {"topup", "done"} =>
               IsPrefix(FirstSeenOrder(tickets), valid_tickets)
          /\ pc = "done" => IsPrefix(result, valid_tickets))
    /\ [][pc = "topup" => IsPrefix(valid_tickets, valid_tickets')]_vars

\* the core and the pair-based candidate are equal: the returned list is the
\* core candidate, the tiered candidate, then a fallback ticket
C12_Witness ==
    /\ pc = "done"
    /\ Len(tickets) = 3 * STRATEGY_COUNT
    /\ tickets[2 * STRATEGY_COUNT + 1] = tickets[1]
    /\ tickets[STRATEGY_COUNT + 1] # tickets[1]
    /\ Len(result) = 3
    /\ result[1] = tickets[1]
    /\ result[2] = tickets[STRATEGY_COUNT + 1]
    /\ NotIn(result[3], tickets)

\* w holds the n most recent rows of the file, most recent first
IsMostRecent(w, rows, n) ==
    /\ Len(w) = n
    /\ \A i \in DOMAIN w : \E j \in DOMAIN rows : rows[j] = w[i]
    /\ \A i, j \in DOMAIN w : i < j => w[i].date > w[j].date
    /\ \A j \in DOMAIN rows :
           (\A i \in DOMAIN w : w[i] # rows[j]) =>
               \A i \in DOMAIN w : rows[j].date < w[i].date

\* C13 (window part): once the file is loaded, the window analysed is the
\* first min(lookback_draws, len(history)) records, most recent first.
C13_WindowIsMostRecent ==
    pc # "start" =>
        IsMostRecent(RecentDf, csv_rows, Min(lookback_draws, Len(csv_rows)))

\* C13: the window analysed is the first min(lookback_draws, len(history))
\* records of the history, most recent first, and a lookback_draws larger
\* than the history raises no failure and uses the whole history.
C13_LookbackClamped ==
    /\ C13_WindowIsMostRecent
    /\ lookback_draws > Len(csv_rows) =>
           /\ pc # "failed"
           /\ pc # "start" => Len(RecentDf) = Len(csv_rows)

\* C14: generate_tickets and the generators leave the score tables, the
\* pair table and the loaded history as the constructor made them: at every
\* point of every call, the first and the later ones, they equal what the
\* analysis step produces from the window.
C14_TablesUnchanged ==
    pc \notin {"start", "loaded", "regular_done", "special_done", "failed"} =>
        /\ df = SortByDateDesc(csv_rows)
        /\ regular_scores =
               ScoreTable(RegularValues(RecentDf), REGULAR_DECAY, Numbers)
        /\ special_scores =
               ScoreTable(SpecialValues(RecentDf), SPECIAL_DECAY, Specials)
        /\ pair_frequency = PairTable(RecentDf)

\* a later call has run the three strategies and the fallback generator
C14_Witness ==
    /\ pc = "topup"
    /\ calls >= 1
    /\ attempts > 0
    /\ Len(tickets) = 3 * STRATEGY_COUNT
    /\ pair_frequency = PairTable(RecentDf)

\* C15: the fallback generator is invoked only while the accepted list
\* (the deduplicated strategy candidates plus the fallback tickets accepted
\* so far) has fewer than num_tickets entries.  So if it has been invoked,
\* the strategies alone fell short of num_tickets and the list has never
\* grown beyond num_tickets; and if the strategies met the quota it has not
\* been invoked and the list is exactly the strategies' outcome.
C15_FallbackOnlyWhenShort ==
    /\ attempts > 0 =>
           /\ Len(FirstSeenOrder(tickets)) < num_tickets
           /\ Len(valid_tickets) <= num_tickets
    /\ (pc \in {"topup", "done"}
           /\ Len(FirstSeenOrder(tickets)) >= num_tickets) =>
           /\ attempts = 0
           /\ valid_tickets = FirstSeenOrder(tickets)

\* the fallback generator has just closed the gap the strategies left: the
\* loop test is false now
C15_Witness ==
    /\ pc = "topup"
    /\ attempts > 0
    /\ Len(FirstSeenOrder(tickets)) < num_tickets
    /\ Len(valid_tickets) = num_tickets

\* C16: when the configured ticket size exceeds the size of the regular
\* range, the only failure is an "invalid configuration" failure, raised
\* before any number has been picked; generation never fails midway.
C16_InvalidConfigurationRejected ==
    (numbers_per_ticket > Cardinality(Numbers) /\ pc = "failed") =>
        /\ err = "invalid configuration"
        /\ top_regular = <<>>
        /\ ticket_numbers = <<>>

\* the records of the window that hold the regular number n
RowsHolding(w, n) ==
    {i \in DOMAIN w : \E c \in DOMAIN w[i].numbers : w[i].numbers[c] = n}

\* C17: a regular number that is in every record of a non-empty window has
\* a score at least that of every number that is in fewer records.
C17_AlwaysDrawnScoresHighest ==
    (pc = "ready" /\ RecentDf # <<>>) =>
        \A n, m \in Numbers :
            (/\ RowsHolding(RecentDf, n) = DOMAIN RecentDf
             /\ Cardinality(RowsHolding(RecentDf, m)) < Len(RecentDf))
                => regular_scores[n] >= regular_scores[m]

\* a window of two records with a number in both, a number in one of them
\* only (scoring lower, but not zero) and a number in neither
C17_Witness ==
    /\ pc = "ready"
    /\ Len(RecentDf) = 2
    /\ \E n, m, k \in Numbers :
           /\ RowsHolding(RecentDf, n) = DOMAIN RecentDf
           /\ Cardinality(RowsHolding(RecentDf, m)) = 1
           /\ RowsHolding(RecentDf, k) = {}
           /\ regular_scores[k] = 0
           /\ 0 < regular_scores[m]
           /\ regular_scores[m] < regular_scores[n]

\* the positions of the list "tickets" that hold the tickets of one
\* generator: generate_tickets extends its list by count tickets of each, a
\* generator called on its own returns its own list
CoreCandidates ==
    IF caller = "generate_tickets" THEN {i \in DOMAIN tickets : i <= count}
    ELSE IF pc \in {"core_pick", "core_returned"} THEN DOMAIN tickets
    ELSE {}
TieredCandidates ==
    IF caller = "generate_tickets"
    THEN {i \in DOMAIN tickets : count < i /\ i <= 2 * count}
    ELSE IF pc \in {"tiered", "tiered_returned"} THEN DOMAIN tickets
    ELSE {}
PairCandidates ==
    IF caller = "generate_tickets"
    THEN {i \in DOMAIN tickets : 2 * count < i}
    ELSE IF pc \in {"pair_based", "pair_returned"} THEN DOMAIN tickets
    ELSE {}

\* exactly NUMBERS_PER_TICKET pairwise distinct regular numbers in range
RegularWellFormed(nums) ==
    /\ Len(nums) = numbers_per_ticket
    /\ \A j, k \in DOMAIN nums : j # k => nums[j] # nums[k]
    /\ \A j \in DOMAIN nums : nums[j] \in Numbers

\* C18: every candidate _generate_core_tickets emits has exactly
\* NUMBERS_PER_TICKET pairwise distinct regular numbers in range, whatever
\* the score table (an all-zero one included); while a ticket is being
\* built, its weighted picks are distinct numbers of the top-K pool and the
\* pool left to draw from holds none of them.
C18_CoreCandidatesWellFormed ==
    /\ \A i \in CoreCandidates : RegularWellFormed(tickets[i][1])
    /\ pc = "core_pick" =>
           /\ Len(ticket_numbers) = picks
           /\ \A j, k \in DOMAIN ticket_numbers :
                  j # k => ticket_numbers[j] # ticket_numbers[k]
           /\ Range(ticket_numbers) \subseteq Range(CoreSet)
           /\ Range(ticket_numbers) \cap Range(remaining) = {}

\* a core candidate built from an all-zero score table: uniform first
\* picks, no jittered draw, three numbers from the fill-up loop
C18_Witness ==
    /\ pc = "core_returned"
    /\ regular_scores = ZeroTable(Numbers)
    /\ Len(tickets) = count
    /\ CoreCandidates = DOMAIN tickets
    /\ RegularWellFormed(tickets[Len(tickets)][1])

\* the numbers of the ticket whose rank in the score order is in lo+1..hi
InRanks(nums, lo, hi) ==
    {j \in DOMAIN nums :
         /\ lo < RankOfNumber(regular_scores, nums[j])
         /\ RankOfNumber(regular_scores, nums[j]) <= hi}

\* C19: every candidate of _generate_tiered_tickets has the fixed split of
\* its class (3/2/1 in the Israeli predictor, 2/2/1 in the Mega Millions
\* one, from the first, second and third rank tier), its numbers are
\* pairwise distinct, and none of them is ranked below the third tier.
C19_TieredSplit ==
    \A i \in TieredCandidates :
        LET nums == tickets[i][1]
        IN /\ Len(nums) = TierPicks[1] + TierPicks[2] + 1
           /\ \A j, k \in DOMAIN nums : j # k => nums[j] # nums[k]
           /\ Cardinality(InRanks(nums, 0, TierEnds[1])) = TierPicks[1]
           /\ Cardinality(InRanks(nums, TierEnds[1], TierEnds[2]))
                  = TierPicks[2]
           /\ Cardinality(InRanks(nums, TierEnds[2], TierEnds[3])) = 1
           /\ \A j \in DOMAIN nums :
                  RankOfNumber(regular_scores, nums[j]) <= TierEnds[3]

\* the tiered candidates of a Mega Millions call have been emitted; a
\* number ranked below the third tier exists and a first-tier number was
\* left out of the last one
C19_Witness ==
    /\ pc = "pair_begin"
    /\ game = "megamillions"
    /\ Len(tickets) = 2 * STRATEGY_COUNT
    /\ TieredCandidates = (STRATEGY_COUNT + 1)..(2 * STRATEGY_COUNT)
    /\ \E n \in Numbers : RankOfNumber(regular_scores, n) > TierEnds[3]
    /\ \E n \in Numbers :
           /\ RankOfNumber(regular_scores, n) <= TierEnds[1]
           /\ \A j \in DOMAIN tickets[Len(tickets)][1] :
                  tickets[Len(tickets)][1][j] # n

\* the ticket holds the endpoints e, and whatever else it holds are the
\* best-ranked numbers outside e: the fill step took them in rank order and
\* stopped at NUMBERS_PER_TICKET numbers (or when none was left)
EndpointsThenBestRanked(nums, e) ==
    /\ e \subseteq Range(nums)
    /\ \A j, k \in DOMAIN nums : j < k => nums[j] < nums[k]
    /\ \A x \in Range(nums) \ e : \A y \in Numbers \ Range(nums) :
           RankOfNumber(regular_scores, x) < RankOfNumber(regular_scores, y)
    /\ \/ Len(nums) = numbers_per_ticket
       \/ Len(nums) < numbers_per_ticket /\ Range(nums) = Numbers

\* C20: every candidate of _generate_pair_based_tickets holds both endpoints
\* of each of the sampled distinct pairs of the sample pool (the cut to
\* NUMBERS_PER_TICKET loses none), and its other numbers are the ones the
\* fill step adds: the highest-ranked numbers not already present.
C20_PairEndpointsKept ==
    \A i \in PairCandidates :
        \E idx \in SubsetsOfSize(DOMAIN PairSamplePool, PairsToUse) :
            EndpointsThenBestRanked(tickets[i][1],
                Endpoints({PairSamplePool[k] : k \in idx}))

\* the sampled pairs share endpoints (three numbers in all), so the fill
\* step supplied the other three
C20_Witness ==
    /\ pc = "validate"
    /\ Len(tickets) = 3 * STRATEGY_COUNT
    /\ PairCandidates = (2 * STRATEGY_COUNT + 1)..(3 * STRATEGY_COUNT)
    /\ \E idx \in SubsetsOfSize(DOMAIN PairSamplePool, PairsToUse) :
           LET e == Endpoints({PairSamplePool[k] : k \in idx})
           IN /\ Cardinality(e) = 3
              /\ EndpointsThenBestRanked(tickets[Len(tickets)][1], e)
              /\ \E y \in Numbers : y \notin Range(tickets[Len(tickets)][1])

\* p comes before q in the ranking: higher count, or equal count and the
\* smaller key (first number, then second)
RanksBefore(freq, p, q) ==
    \/ freq[p] > freq[q]
    \/ /\ freq[p] = freq[q]
       /\ p[1] < q[1] \/ (p[1] = q[1] /\ p[2] < q[2])

\* C21: the ranked pair list is ordered by non-increasing count, pairs of
\* equal count in ascending (i,j) order, so the top-N pairs are fixed by the
\* pair table: the list of the pair-based strategy is the first PAIR_POOL
\* pairs of that order, and the pool of the mixed strategy is the set of
\* the first MIXED_PAIR_POOL pairs of it.
C21_PairRanking ==
    /\ pc \in {"pair_based", "validate", "topup", "done"} =>
           /\ Len(top_pairs) = Min(PairPool, Cardinality(Pairs))
           /\ \A i, j \in DOMAIN top_pairs :
                  i < j => RanksBefore(pair_frequency, top_pairs[i], top_pairs[j])
           /\ \A p \in Pairs \ Range(top_pairs) : \A i \in DOMAIN top_pairs :
                  RanksBefore(pair_frequency, top_pairs[i], p)
    /\ pc = "topup" =>
           /\ MixedTopPairs \subseteq Pairs
           /\ Cardinality(MixedTopPairs) = Min(MixedPairPool, Cardinality(Pairs))
           /\ \A p \in MixedTopPairs : \A q \in Pairs \ MixedTopPairs :
                  RanksBefore(pair_frequency, p, q)

\* a ranking with a strict step and with ties, and a mixed pool that leaves
\* pairs out, some of them tied with pairs it holds
C21_Witness ==
    /\ pc = "topup"
    /\ attempts > 0
    /\ \E i \in DOMAIN top_pairs : i > 1
           /\ pair_frequency[top_pairs[i - 1]] > pair_frequency[top_pairs[i]]
    /\ \E p \in MixedTopPairs : \E q \in Pairs \ MixedTopPairs :
           pair_frequency[p] = pair_frequency[q]

\* the pairs of the list with exactly one endpoint in the set
OneEndpointIn(pairs, nums) ==
    {p \in Range(pairs) : Cardinality({p[1], p[2]} \cap nums) = 1}

\* C22: in the mixed generator every iteration of the fill loop adds exactly
\* one number that was not in the set; the number is the missing endpoint of
\* a pair of the top-ranked pair list that has exactly one endpoint in the
\* set, and only when the list holds no such pair is it some other number of
\* the full range.  The pair list holds the best-ranked pairs of the table.
C22_FillAddsPairEndpoint ==
    /\ [](pc = "mixed_fill" =>
              \A nums \in MixedFillStep(Range(top_pairs), regular_nums) :
                  Cardinality(nums) = Cardinality(regular_nums) + 1)
    /\ [][(pc = "mixed_fill" /\ Cardinality(regular_nums) < numbers_per_ticket) =>
             /\ \A p \in Range(top_pairs) : \A q \in Pairs \ Range(top_pairs) :
                    RanksBefore(pair_frequency, p, q)
             /\ \E x \in Numbers \ regular_nums :
                    /\ regular_nums' = regular_nums \cup {x}
                    /\ OneEndpointIn(top_pairs, regular_nums) # {} =>
                           \E p \in OneEndpointIn(top_pairs, regular_nums) :
                               x \in {p[1], p[2]}]_vars

\* the fill loop has added a number, the set is still short, and no pair of
\* the list has exactly one endpoint in it: the next number comes from the
\* full range
C22_Witness ==
    /\ pc = "mixed_fill"
    /\ Cardinality(regular_nums) > MixedSeedCount
    /\ Cardinality(regular_nums) < numbers_per_ticket
    /\ OneEndpointIn(top_pairs, regular_nums) = {}

\* the pool the seeds come from: the best-ranked numbers
SeedPool == {top_regular[k] : k \in 1..Min(MixedPool, Len(top_regular))}

\* C23 (as amended): the mixed generator starts each ticket with exactly
\* three pairwise distinct seed numbers, all from the top-ranked pool, in
\* both classes: every seeding iteration adds one number of the pool that
\* was not in the set, and the fill loop starts when the set holds three.
C23_ThreeDistinctSeeds ==
    [][pc = "mixed_seed" =>
          /\ \E x \in SeedPool \ regular_nums :
                 regular_nums' = regular_nums \cup {x}
          /\ (pc' = "mixed_fill") <=> (Cardinality(regular_nums') = 3)
          /\ pc' \in {"mixed_seed", "mixed_fill"}]_vars

\* a Mega Millions ticket right after seeding: three seeds, one of the
\* numbers of the range lies outside the pool
C23_Witness ==
    /\ pc = "mixed_fill"
    /\ game = "megamillions"
    /\ picks = 3
    /\ Cardinality(regular_nums) = 3
    /\ SeedPool # Numbers

\* C23 (as claimed): when seeding is over the set holds regular_count/2
\* numbers (rounded down), in both classes.
C23_SeedsAreHalfTheTicket ==
    [][(pc = "mixed_seed" /\ pc' = "mixed_fill") =>
          Cardinality(regular_nums') = numbers_per_ticket \div 2]_vars

\* C24: a call of the mixed generator terminates: it reaches its return;
\* while the set is short of NUMBERS_PER_TICKET the full range holds a number
\* not yet chosen; every iteration of the fill loop makes the set one larger;
\* and the ticket returned has exactly NUMBERS_PER_TICKET numbers.
C24_MixedCallTerminates ==
    /\ <>(pc = "mixed_done")
    /\ [](/\ (pc = "mixed_fill" /\ Cardinality(regular_nums) < numbers_per_ticket)
              => Numbers \ regular_nums # {}
          /\ pc = "mixed_done" =>
                 /\ Cardinality(regular_nums) = numbers_per_ticket
                 /\ Len(result) = 1
                 /\ Len(result[1][1]) = numbers_per_ticket)
    /\ [][(pc = "mixed_fill" /\ pc' = "mixed_fill") =>
              Cardinality(regular_nums') = Cardinality(regular_nums) + 1]_vars
    /\ [][(pc = "mixed_fill" /\ pc' # "mixed_fill") =>
              (pc' = "mixed_done" /\ regular_nums' = regular_nums
               /\ Cardinality(regular_nums) = numbers_per_ticket)]_vars

\* a 6-number ticket returned by a call whose fill loop ran three times
C24_Witness ==
    /\ pc = "mixed_done"
    /\ game = "israeli"
    /\ picks = 3
    /\ Cardinality(regular_nums) = 6
    /\ Len(result) = 1
    /\ Range(result[1][1]) = regular_nums

\* the candidates with a weight above zero
Positive(weights, cands) == {c \in cands : weights[c] > 0}

\* C25: over every non-empty window of valid records no step of a generator
\* fails: the special scores, the scores of the seed candidates, the counts of
\* the pairs with one endpoint chosen (or, when there is none, the scores of
\* the numbers not yet chosen) never add up to zero, and when the core
\* generator makes its second draw at least as many numbers of the pool left
\* have a positive score as the draw asks for.
C25_NoStepFails ==
    /\ pc # "failed"
    /\ err = "none"
    /\ pc \in {"ready", "core_pick", "tiered", "pair_begin", "pair_based",
              "mixed_seed", "mixed_fill"} =>
           Positive(special_scores, Specials) # {}
    /\ pc = "mixed_seed" =>
           Positive(regular_scores, SeedPool \ regular_nums) # {}
    /\ (pc = "mixed_fill" /\ Cardinality(regular_nums) < numbers_per_ticket) =>
           IF OneEndpointIn(top_pairs, regular_nums) # {}
           THEN Positive(pair_frequency,
                         OneEndpointIn(top_pairs, regular_nums)) # {}
           ELSE Positive(regular_scores, Numbers \ regular_nums) # {}
    /\ (pc = "core_pick" /\ picks = CORE_FIRST_PICKS) =>
           Cardinality(Positive(regular_scores, Range(remaining)))
               >= Min(CoreSecondPicks, Len(remaining))

\* the fill loop chooses among pairs of which some, but not all, have count 0
C25_Witness ==
    /\ pc = "mixed_fill"
    /\ Cardinality(regular_nums) > MixedSeedCount
    /\ Cardinality(regular_nums) < numbers_per_ticket
    /\ \E p \in OneEndpointIn(top_pairs, regular_nums) : pair_frequency[p] = 0
    /\ \E p \in OneEndpointIn(top_pairs, regular_nums) : pair_frequency[p] > 0

\* the top-K pool of the core generator
CorePoolNumbers == {top_regular[k] : k \in 1..Min(CorePool, Len(top_regular))}

\* C26: over every non-empty window of valid records every number of a core
\* candidate is in the top-K pool and has a positive score, also while the
\* candidate is being built; the first phase yields three numbers and the
\* pool left then holds enough positive-score numbers for the second phase,
\* so the two phases yield NUMBERS_PER_TICKET distinct numbers and nothing is
\* left to the uniform top-up.
C26_CoreNumbersPositiveAndPooled ==
    /\ pc = "core_pick" =>
           /\ Len(ticket_numbers) = picks
           /\ Range(ticket_numbers) \subseteq CorePoolNumbers
           /\ \A n \in Range(ticket_numbers) : regular_scores[n] > 0
           /\ picks = CORE_FIRST_PICKS =>
                  \A drawn \in CoreSecondDraws(remaining) :
                      /\ drawn \subseteq Positive(regular_scores, CorePoolNumbers)
                      /\ Cardinality(Range(ticket_numbers) \cup drawn)
                             = numbers_per_ticket
    /\ \A i \in CoreCandidates :
               /\ Len(tickets[i][1]) = numbers_per_ticket
               /\ Cardinality(Range(tickets[i][1])) = numbers_per_ticket
               /\ Range(tickets[i][1]) \subseteq CorePoolNumbers
               /\ \A n \in Range(tickets[i][1]) : regular_scores[n] > 0

\* a Mega Millions core candidate from a pool that holds a zero-score number
\* and leaves numbers of the range out
C26_Witness ==
    /\ pc = "core_returned"
    /\ game = "megamillions"
    /\ Len(tickets) = count
    /\ CoreCandidates = DOMAIN tickets
    /\ CorePoolNumbers # Numbers
    /\ \E n \in CorePoolNumbers : regular_scores[n] = 0

\* C27: a call of generate_tickets with num_tickets <= 0 returns the empty
\* list and never calls the fallback generator, and no call returns more
\* than max(num_tickets, 0) tickets.
C27_NonPositiveGivesEmpty ==
    pc = "done" =>
        /\ num_tickets <= 0 => (result = <<>> /\ attempts = 0)
        /\ Len(result) <= Max(num_tickets, 0)

\* six pairwise distinct regular numbers in range and a special number in
\* range
ValidRecord(row) ==
    /\ Len(row.numbers) = NUMBERS_PER_TICKET
    /\ \A c \in DOMAIN row.numbers : row.numbers[c] \in Numbers
    /\ \A c, e \in DOMAIN row.numbers :
           row.numbers[c] = row.numbers[e] => c = e
    /\ row.special \in Specials

\* C28: every record IsraeliLotteryProcessor.process writes has six pairwise
\* distinct regular numbers in range and a special number in range, so the
\* predictor built over the file never meets a pair (i, i) or a key outside
\* its tables.
C28_WrittenRecordsValid ==
    /\ pc # "raw" => \A i \in DOMAIN csv_rows : ValidRecord(csv_rows[i])
    /\ err # KEY_ERROR

\* C29: for every interval_weeks >= 1 the request windows of a year are
\* pairwise disjoint, each window after the first starts the day after the
\* one before it ended, and when the year is done the windows cover every
\* day from January 1 to the end of the year (December 31, or today in the
\* current year).
C29_WindowsPartitionYear ==
    /\ \A i \in DOMAIN requests : requests[i][1] <= requests[i][2]
    /\ \A i \in DOMAIN requests :
           i > 1 => requests[i][1] = requests[i - 1][2] + 1
    /\ pc = "mm_done" =>
           \A d \in 0..end_of_year.day :
               \E i \in DOMAIN requests :
                   requests[i][1] <= d /\ d <= requests[i][2]

\* Monday, Wednesday or Saturday
IsDrawingDay(d) == (year.jan1 + d) % 7 \in {0, 2, 5}

\* C30: for every interval_weeks >= 0 every Powerball request window starts
\* and ends on a drawing day with start <= end, every window after the
\* first starts strictly after the one before it ended, the "else: break"
\* branch is never taken and the loop terminates; the two drawing-date
\* helpers return, within 6 steps, the nearest drawing day at or after
\* (resp. at or before) the date given.
C30_PowerballWindows ==
    /\ [](/\ \A i \in DOMAIN requests :
                 /\ IsDrawingDay(requests[i][1])
                 /\ IsDrawingDay(requests[i][2])
                 /\ requests[i][1] <= requests[i][2]
                 /\ i > 1 => requests[i][1] > requests[i - 1][2]
          /\ pc # "pb_break"
          /\ \A k \in 0..6 :
                 LET next == GetNextDrawingDate(DateTime(k, 0)).day
                     previous == GetPreviousDrawingDate(DateTime(k, 0)).day
                 IN /\ IsDrawingDay(next)
                    /\ next - k \in 0..6
                    /\ \A j \in k..(next - 1) : ~IsDrawingDay(j)
                    /\ IsDrawingDay(previous)
                    /\ k - previous \in 0..6
                    /\ \A j \in (previous + 1)..k : ~IsDrawingDay(j))
    /\ <>(pc = "pb_done")

\* a current year done in several windows, the last one cut at the last
\* drawing day before today
C30_Witness ==
    /\ pc = "pb_done"
    /\ ~PastYear
    /\ Len(requests) >= 2
    /\ interval_weeks >= 1
    /\ ~IsDrawingDay(today.day)
    /\ requests[Len(requests)][2] < today.day
====
